---- MODULE Spec2Model ----
(***************************************************************************)
(* zorm: the query builders (Select, Insert, Update, Delete), the filter   *)
(* compiler (find, findWithNesting, findOne), the comparison compiler and  *)
(* the join resolver, modelled as a state machine of one builder session   *)
(* against one executor and one database.                                  *)
(*                                                                         *)
(* Statement text is modelled as the sequence of its lexical pieces        *)
(* (tokens); a placeholder $n is the field ph = n of the piece holding it. *)
(* JavaScript values are tagged records; scalars keep their printed form.  *)
(***************************************************************************)
EXTENDS Integers, Sequences, FiniteSets, TLC

VARIABLES
    builder,      \* the builder object of the session: its class, definition and query
    definitions,  \* Select.definitions: the alias registry (sequence of <<alias, definition>>)
    sent,         \* the executeString calls received by the executor, in order
    db,           \* the database: the rows of the country table and its id sequence
    call,         \* the last call made: its name, arguments and what it returned or threw
    history       \* what the session did so far (ghost): calls made, the state before a run
                  \* of where calls, the joins registered before the last where

vars == <<builder, definitions, sent, db, call, history>>

----------------------------------------------------------------------------
(* JavaScript values *)

Undefined == [t |-> "undefined"]
Null == [t |-> "null"]
Num(s) == [t |-> "number", v |-> s]
Str(s) == [t |-> "string", v |-> s]
Bool(s) == [t |-> "boolean", v |-> s]
DateV(s) == [t |-> "date", v |-> s]
Arr(elems) == [t |-> "array", elems |-> elems]
\* a plain object, its own enumerable keys in insertion order
Obj(entries) == [t |-> "object", entries |-> entries]
\* { _op, value }
Comparison(op, value) == [t |-> "comparison", op |-> op, value |-> value]
\* { __ref: key }
JoinRef(key) == [t |-> "ref", ref |-> key]
\* JSON.stringify(value)
JSONstringify(value) == [t |-> "string", json |-> value]

\* ToBoolean
Truthy(x) ==
    ~(x \in {Undefined, Null, Num("0"), Str(""), Bool("false")})

\* typeof x
TypeOf(x) ==
    IF x.t \in {"undefined", "number", "string", "boolean"} THEN x.t ELSE "object"

\* x == null (loose): null or undefined
LooseNull(x) == x \in {Null, Undefined}

\* The keys a for..in loop visits with the value found under each. A string
\* primitive enumerates its indices; numbers, booleans, dates, null and
\* undefined enumerate nothing.
ForIn(x) ==
    CASE x.t = "object" -> x.entries
      [] x.t = "array" -> [i \in 1..Len(x.elems) |-> <<ToString(i - 1), x.elems[i]>>]
      [] x.t = "comparison" -> << <<"_op", Str(x.op)>>, <<"value", x.value>> >>
      [] x.t = "ref" -> << <<"__ref", Str(x.ref)>> >>
      [] x.t = "string" /\ "v" \in DOMAIN x /\ x.v # "" -> << <<"0", Str("char")>> >>
      [] OTHER -> << >>

\* x[key] of a plain object: undefined when the key is not set
Get(x, key) ==
    IF x.t = "object" /\ \E i \in 1..Len(x.entries) : x.entries[i][1] = key
    THEN x.entries[CHOOSE i \in 1..Len(x.entries) : x.entries[i][1] = key][2]
    ELSE Undefined

----------------------------------------------------------------------------
(* Entity definitions (those of the test suite) *)

FieldDefinition(name, type, hasDBDefault, nullable) ==
    [name |-> name, type |-> type, hasDBDefault |-> hasDBDefault, nullable |-> nullable]

\* definitions[alias] of an alias that was never registered
UndefinedDefinition == [undefined |-> TRUE]

countryDefinition ==
    [ tableName |-> "country",
      primaryKeyFieldName |-> "id",
      fieldNames |-> <<"id", "name", "region", "isDeleted">>,
      fields |-> [ id |-> FieldDefinition("", "", TRUE, FALSE),
                   name |-> FieldDefinition("", "", FALSE, FALSE),
                   region |-> FieldDefinition("", "", FALSE, TRUE),
                   isDeleted |-> FieldDefinition("", "", TRUE, FALSE) ] ]

locationDefinition ==
    [ tableName |-> "location",
      primaryKeyFieldName |-> "id",
      fieldNames |-> <<"id", "name", "country">>,
      fields |-> [ id |-> FieldDefinition("", "", TRUE, FALSE),
                   name |-> FieldDefinition("", "", FALSE, FALSE),
                   country |-> FieldDefinition("", "", FALSE, FALSE) ] ]

\* the definition with declared (custom) types
userDefinition ==
    [ tableName |-> "user",
      primaryKeyFieldName |-> "id",
      fieldNames |-> <<"id", "state", "emailState">>,
      fields |-> [ id |-> FieldDefinition("", "", FALSE, FALSE),
                   state |-> FieldDefinition("", "user_state", FALSE, FALSE),
                   emailState |-> FieldDefinition("", "user_email_state", FALSE, FALSE) ] ]

IsDefined(definition) == "tableName" \in DOMAIN definition

HasField(definition, field) ==
    IsDefined(definition) /\ field \in DOMAIN definition.fields

\* lodash.snakecase on the field names in use
snakeCase(field) ==
    CASE field = "isDeleted" -> "is_deleted"
      [] field = "locationId" -> "location_id"
      [] field = "userId" -> "user_id"
      [] OTHER -> field

----------------------------------------------------------------------------
(* helpers.ts *)

getDatabaseName(definition, field, includeTableName) ==
    LET column == IF definition.fields[field].name # ""
                  THEN definition.fields[field].name
                  ELSE snakeCase(field)
    IN IF includeTableName THEN definition.tableName \o "." \o column ELSE column

\* fields is an array of field names, or Undefined for the omitted argument
getFieldList(definition, fields) ==
    LET kept == SelectSeq(definition.fieldNames,
                          LAMBDA f : fields = Undefined
                                     \/ \E i \in 1..Len(fields.elems) : fields.elems[i] = Str(f))
    IN [i \in 1..Len(kept) |-> <<"\"" \o getDatabaseName(definition, kept[i], FALSE) \o "\"", kept[i]>>]

getSelectFields(fields, table) ==
    [i \in 1..Len(fields) |-> table \o "." \o fields[i][1] \o " AS \"" \o fields[i][2] \o "\""]

\* "" stands for the thrown Error('Unable to infer postgres type')
inferDatabaseType(field) ==
    CASE TypeOf(field) = "number" -> "int"
      [] TypeOf(field) = "string" -> "text"
      [] TypeOf(field) = "boolean" -> "boolean"
      [] TypeOf(field) = "object" -> IF field.t = "date" THEN "timestamptz" ELSE "jsonb"
      [] OTHER -> ""

\* getDatabaseType that asks the value first
getDatabaseTypeInferredFirst(definition, field, value) ==
    IF inferDatabaseType(value) # ""
    THEN inferDatabaseType(value)
    ELSE definition.fields[field].type

getDatabaseType(definition, field, value) ==
    IF definition.fields[field].type # ""
    THEN definition.fields[field].type
    ELSE inferDatabaseType(value)

isArray(x) == x.t = "array"

isComparison(object) == Truthy(object) /\ object.t = "comparison"

----------------------------------------------------------------------------
(* Statement text: a sequence of pieces *)

\* <column> <rel> $<ph>::<cast>
Predicate(column, rel, ph, cast) ==
    [kind |-> "predicate", column |-> column, rel |-> rel, ph |-> ph, cast |-> cast]

\* <column> IS NULL
IsNullPiece(column) == [kind |-> "isnull", column |-> column]

\* " AND " / " OR " between two parts
Connective(operator) == [kind |-> "connective", operator |-> operator]

RECURSIVE Flatten(_)
Flatten(seqs) ==
    IF seqs = << >> THEN << >> ELSE Head(seqs) \o Flatten(Tail(seqs))

\* parts.join(` ${operator} `), each part a sequence of pieces ('' is the empty one)
RECURSIVE JoinParts(_, _)
JoinParts(parts, operator) ==
    IF parts = << >> THEN << >>
    ELSE IF Len(parts) = 1 THEN parts[1]
    ELSE parts[1] \o <<Connective(operator)>> \o JoinParts(Tail(parts), operator)

\* the numbers of the $n placeholders of a text, in text order
Placeholders(text) ==
    LET holding == SelectSeq(text, LAMBDA piece : "ph" \in DOMAIN piece)
    IN [i \in 1..Len(holding) |-> holding[i].ph]

----------------------------------------------------------------------------
(* queryBuilders/comparaison.ts *)

ComparisonSymbol(op) ==
    CASE op = "greater" -> ">"
      [] op = "greaterOrEqual" -> ">="
      [] op = "less" -> "<"
      [] op = "lessOrEqual" -> "<="
      [] op = "not" -> "!="

\* whereClause is ` <symbol> $<paramCount>`: the symbol and the placeholder number
comparisonToWhereClause(comparison, paramCount) ==
    LET result == [ paramCount |-> IF LooseNull(comparison.value) THEN paramCount ELSE paramCount + 1,
                    whereParams |-> IF LooseNull(comparison.value) THEN << >> ELSE <<comparison.value>> ]
    IN [ paramCount |-> result.paramCount,
         whereParams |-> result.whereParams,
         whereClause |-> [rel |-> ComparisonSymbol(comparison.op), ph |-> result.paramCount] ]

----------------------------------------------------------------------------
(* queryBuilders/find.ts *)

\* a call that threw: nothing is returned
Threw == [threw |-> TRUE]

\* the paramCount findOne hands to comparisonToWhereClause: the argument is
\* omitted at the call site, so the callee's default applies
ComparisonParamCount(paramCount) == 0

\* findOne counting a placeholder for a null value too
findOneCountingNull(definition, key, value, paramCount, tableAlias) ==
    IF ~HasField(definition, key) THEN Threw
    ELSE
    LET dbFieldName == IF tableAlias # ""
                       THEN "\"" \o tableAlias \o "\"." \o getDatabaseName(definition, key, FALSE)
                       ELSE getDatabaseName(definition, key, TRUE)
    IN  IF isComparison(value)
        THEN LET paramType == getDatabaseType(definition, key, value)
                 comparison == comparisonToWhereClause(value, ComparisonParamCount(paramCount))
             IN [ threw |-> FALSE,
                  paramCount |-> comparison.paramCount,
                  whereParams |-> comparison.whereParams,
                  whereClause |-> <<Predicate(dbFieldName, comparison.whereClause.rel,
                                              comparison.whereClause.ph, paramType)>> ]
        ELSE
        LET result == [ paramCount |-> paramCount + 1,
                        whereParams |-> IF value # Null THEN <<value>> ELSE << >> ]
        IN  IF value = Null
            THEN [ threw |-> FALSE, paramCount |-> result.paramCount, whereParams |-> result.whereParams,
                   whereClause |-> <<IsNullPiece(dbFieldName)>> ]
            ELSE IF isArray(value)
            THEN LET paramType == getDatabaseType(definition, key,
                                      IF Len(value.elems) > 0 THEN value.elems[1] ELSE Undefined)
                 IN IF paramType = "" THEN Threw
                    ELSE [ threw |-> FALSE, paramCount |-> result.paramCount,
                           whereParams |-> result.whereParams,
                           whereClause |-> <<Predicate(dbFieldName, "= ANY", result.paramCount,
                                                       paramType \o "[]")>> ]
            ELSE LET paramType == getDatabaseType(definition, key, value)
                 IN IF paramType = "" THEN Threw
                    ELSE [ threw |-> FALSE, paramCount |-> result.paramCount,
                           whereParams |-> result.whereParams,
                           whereClause |-> <<Predicate(dbFieldName, "=", result.paramCount, paramType)>> ]

\* tableAlias "" stands for null (only its truthiness is used)
findOne(definition, key, value, paramCount, tableAlias) ==
    IF ~HasField(definition, key) THEN Threw
    ELSE
    LET dbFieldName == IF tableAlias # ""
                       THEN "\"" \o tableAlias \o "\"." \o getDatabaseName(definition, key, FALSE)
                       ELSE getDatabaseName(definition, key, TRUE)
    IN  IF isComparison(value)
        THEN LET paramType == getDatabaseType(definition, key, value)
                 comparison == comparisonToWhereClause(value, ComparisonParamCount(paramCount))
             IN [ threw |-> FALSE,
                  paramCount |-> comparison.paramCount,
                  whereParams |-> comparison.whereParams,
                  whereClause |-> <<Predicate(dbFieldName, comparison.whereClause.rel,
                                              comparison.whereClause.ph, paramType)>> ]
        ELSE
        LET result == [ paramCount |-> IF value # Null THEN paramCount + 1 ELSE paramCount,
                        whereParams |-> IF value # Null THEN <<value>> ELSE << >> ]
        IN  IF value = Null
            THEN [ threw |-> FALSE, paramCount |-> result.paramCount, whereParams |-> result.whereParams,
                   whereClause |-> <<IsNullPiece(dbFieldName)>> ]
            ELSE IF isArray(value)
            THEN LET paramType == getDatabaseType(definition, key,
                                      IF Len(value.elems) > 0 THEN value.elems[1] ELSE Undefined)
                 IN IF paramType = "" THEN Threw
                    ELSE [ threw |-> FALSE, paramCount |-> result.paramCount,
                           whereParams |-> result.whereParams,
                           whereClause |-> <<Predicate(dbFieldName, "= ANY", result.paramCount,
                                                       paramType \o "[]")>> ]
            ELSE LET paramType == getDatabaseType(definition, key, value)
                 IN IF paramType = "" THEN Threw
                    ELSE [ threw |-> FALSE, paramCount |-> result.paramCount,
                           whereParams |-> result.whereParams,
                           whereClause |-> <<Predicate(dbFieldName, "=", result.paramCount, paramType)>> ]

\* the loop of find from entry i on; acc holds whereParts, whereParams, parameterCount
RECURSIVE findLoop(_, _, _, _, _)
findLoop(definition, entries, i, tableAlias, acc) ==
    IF i > Len(entries) THEN acc
    ELSE LET Push(part) ==
                 IF part.threw THEN Threw
                 ELSE findLoop(definition, entries, i + 1, tableAlias,
                               [ threw |-> FALSE,
                                 parameterCount |-> part.paramCount,
                                 whereParts |-> Append(acc.whereParts, part.whereClause),
                                 whereParams |-> acc.whereParams \o part.whereParams ])
         IN Push(findOne(definition, entries[i][1], entries[i][2], acc.parameterCount, tableAlias))

find(definition, whereObject, paramCountStart, operator, tableAlias) ==
    LET Return(done) ==
            IF done.threw THEN Threw
            ELSE [ threw |-> FALSE,
                   whereClause |-> JoinParts(done.whereParts, operator),
                   whereParams |-> done.whereParams,
                   parameterCount |-> done.parameterCount ]
    IN Return(findLoop(definition, ForIn(whereObject), 1, tableAlias,
                       [ threw |-> FALSE, parameterCount |-> paramCountStart,
                         whereParts |-> << >>, whereParams |-> << >> ]))

\* definitions[key] of the alias registry
Lookup(defs, key) ==
    IF \E i \in 1..Len(defs) : defs[i][1] = key
    THEN defs[CHOOSE i \in 1..Len(defs) : defs[i][1] = key][2]
    ELSE UndefinedDefinition

\* the test of find.ts:52-56 that sends a key to the root definition
ResolvesAgainstRoot(paramValue) ==
    ~Truthy(paramValue) \/ isComparison(paramValue) \/ isArray(paramValue)

RECURSIVE findWithNestingLoop(_, _, _, _)
findWithNestingLoop(defs, entries, i, acc) ==
    IF i > Len(entries) THEN acc
    ELSE LET key == entries[i][1]
             paramValue == entries[i][2]
             PushOne(part) ==
                 IF part.threw THEN Threw
                 ELSE findWithNestingLoop(defs, entries, i + 1,
                          [ threw |-> FALSE,
                            parameterCount |-> part.paramCount,
                            whereParts |-> Append(acc.whereParts, part.whereClause),
                            whereParams |-> acc.whereParams \o part.whereParams ])
             PushNested(part) ==
                 IF part.threw THEN Threw
                 ELSE findWithNestingLoop(defs, entries, i + 1,
                          [ threw |-> FALSE,
                            parameterCount |-> part.parameterCount,
                            whereParts |-> Append(acc.whereParts, part.whereClause),
                            whereParams |-> acc.whereParams \o part.whereParams ])
         IN IF ResolvesAgainstRoot(paramValue)
            THEN PushOne(findOne(Lookup(defs, "root"), key, paramValue, acc.parameterCount, ""))
            ELSE PushNested(find(Lookup(defs, key), paramValue, acc.parameterCount, "AND", key))

findWithNesting(defs, whereObject, paramCountStart, operator) ==
    LET Return(done) ==
            IF done.threw THEN Threw
            ELSE [ threw |-> FALSE,
                   whereClause |-> JoinParts(done.whereParts, operator),
                   whereParams |-> done.whereParams,
                   parameterCount |-> done.parameterCount ]
    IN Return(findWithNestingLoop(defs, ForIn(whereObject), 1,
                                  [ threw |-> FALSE, parameterCount |-> paramCountStart,
                                    whereParts |-> << >>, whereParams |-> << >> ]))

----------------------------------------------------------------------------
(* queryBuilders/join.ts *)

isRef(value) == value.t = "ref" /\ Truthy(Str(value.ref))

isNestedRef(value) == TypeOf(value) = "object"

\* ` <type> <table> "<alias>" ON (`
JoinPiece(type, table, alias) == [kind |-> "join", type |-> type, table |-> table, alias |-> alias]

\* `)` closing the ON conditions
EndJoinPiece == [kind |-> "endjoin"]

\* <column> = $<ph>, no cast
OnValuePiece(column, ph) == [kind |-> "onvalue", column |-> column, ph |-> ph]

\* <column> = <other column>
OnColumnPiece(column, other) == [kind |-> "oncolumn", column |-> column, other |-> other]

\* new Map(Object.entries(fields).map(([key, value]) => [value, key])).get(tsFieldName):
\* the last output name given for the joined field
fieldsMapGet(fields, tsFieldName) ==
    LET outputs == SelectSeq(ForIn(fields), LAMBDA e : e[2] = Str(tsFieldName))
    IN outputs[Len(outputs)][1]

\* Object.values(fields)
fieldValues(fields) ==
    LET entries == ForIn(fields) IN Arr([i \in 1..Len(entries) |-> entries[i][2]])

joinFieldList(joinedTableDefinition, alias, fields) ==
    LET list == getFieldList(joinedTableDefinition, fieldValues(fields))
    IN [i \in 1..Len(list) |->
           "\"" \o alias \o "\"." \o list[i][1] \o " as \"" \o fieldsMapGet(fields, list[i][2]) \o "\""]

\* the ON value is taken for the null test
JoinsOnNull(joinObject) == ~Truthy(joinObject)

\* the conditions one nested reference gives: one per alias key of the object
RECURSIVE nestedRefLoop(_, _, _, _, _)
nestedRefLoop(queryDefinitions, column, entries, i, acc) ==
    IF i > Len(entries) THEN [threw |-> FALSE, onClauses |-> acc]
    ELSE LET joinObjectAlias == entries[i][1]
             referenced == entries[i][2]
             definition == Lookup(queryDefinitions, joinObjectAlias)
         IN IF referenced.t # "string" \/ "v" \notin DOMAIN referenced
               \/ ~HasField(definition, referenced.v)
            THEN Threw
            ELSE nestedRefLoop(queryDefinitions, column, entries, i + 1,
                     Append(acc, <<OnColumnPiece(column,
                         "\"" \o joinObjectAlias \o "\"." \o getDatabaseName(definition, referenced.v, FALSE))>>))

RECURSIVE joinLoop(_, _, _, _, _, _)
joinLoop(joinedTableDefinition, alias, queryDefinitions, entries, i, acc) ==
    IF i > Len(entries) THEN acc
    ELSE LET joinedTableField == entries[i][1]
             joinObject == entries[i][2]
         IN IF ~HasField(joinedTableDefinition, joinedTableField) THEN Threw
            ELSE
            LET joinedTableFieldDBName ==
                    "\"" \o alias \o "\"." \o getDatabaseName(joinedTableDefinition, joinedTableField, FALSE)
            IN  IF JoinsOnNull(joinObject)
                THEN joinLoop(joinedTableDefinition, alias, queryDefinitions, entries, i + 1,
                         [acc EXCEPT !.onClauses = Append(@, <<IsNullPiece(joinedTableFieldDBName)>>)])
                ELSE IF TypeOf(joinObject) # "object" \/ joinObject.t = "date"
                THEN joinLoop(joinedTableDefinition, alias, queryDefinitions, entries, i + 1,
                         [acc EXCEPT !.joinParams = Append(@, joinObject),
                                     !.paramCount = @ + 1,
                                     !.onClauses = Append(@, <<OnValuePiece(joinedTableFieldDBName,
                                                                            acc.paramCount + 1)>>)])
                ELSE IF isRef(joinObject)
                THEN IF ~HasField(Lookup(queryDefinitions, "root"), joinObject.ref) THEN Threw
                     ELSE joinLoop(joinedTableDefinition, alias, queryDefinitions, entries, i + 1,
                              [acc EXCEPT !.onClauses = Append(@, <<OnColumnPiece(joinedTableFieldDBName,
                                  getDatabaseName(Lookup(queryDefinitions, "root"), joinObject.ref, TRUE))>>)])
                ELSE IF isNestedRef(joinObject)
                THEN LET Push(nested) ==
                             IF nested.threw THEN Threw
                             ELSE joinLoop(joinedTableDefinition, alias, queryDefinitions, entries, i + 1,
                                      [acc EXCEPT !.onClauses = @ \o nested.onClauses])
                     IN Push(nestedRefLoop(queryDefinitions, joinedTableFieldDBName,
                                           ForIn(joinObject), 1, << >>))
                ELSE Threw

join(type, joinedTableDefinition, alias, queryDefinitions, on, paramCountStart, fields, onOperator) ==
    LET Return(done) ==
            IF done.threw THEN Threw
            ELSE [ threw |-> FALSE,
                   parameterCount |-> done.paramCount,
                   joinFields |-> joinFieldList(joinedTableDefinition, alias, fields),
                   joinClause |-> <<JoinPiece(type, joinedTableDefinition.tableName, alias)>>
                                  \o JoinParts(done.onClauses, onOperator)
                                  \o <<EndJoinPiece>>,
                   joinParams |-> done.joinParams ]
    IN Return(joinLoop(joinedTableDefinition, alias, queryDefinitions, ForIn(on), 1,
                       [threw |-> FALSE, paramCount |-> paramCountStart,
                        joinParams |-> << >>, onClauses |-> << >>]))

----------------------------------------------------------------------------
(* queryBuilders/select.ts *)

\* this.definitions[alias] = definition: an existing key keeps its place
SetAlias(defs, alias, definition) ==
    IF \E i \in 1..Len(defs) : defs[i][1] = alias
    THEN [i \in 1..Len(defs) |-> IF defs[i][1] = alias THEN <<alias, definition>> ELSE defs[i]]
    ELSE Append(defs, <<alias, definition>>)

\* constructor: whereClause << >> stands for undefined, limit and offset start undefined
SelectNew(definition, fields) ==
    [ class |-> "Select",
      definition |-> definition,
      query |-> [ parameterCount |-> 0,
                  params |-> << >>,
                  joinClauses |-> << >>,
                  selectFields |-> getSelectFields(IF Len(fields) > 0 THEN fields
                                                   ELSE getFieldList(definition, Undefined),
                                                   definition.tableName),
                  whereClause |-> << >>,
                  limit |-> Undefined,
                  offset |-> Undefined,
                  groupBy |-> Undefined,
                  orderBy |-> Undefined,
                  order |-> Undefined ] ]

\* _where leaving the counter where it was
Select_whereKeepingCount(query, whereClause, whereParams) ==
    [query EXCEPT !.whereClause = whereClause,
                  !.params = @ \o whereParams]

Select_where(query, whereClause, whereParams) ==
    [query EXCEPT !.whereClause = whereClause,
                  !.params = @ \o whereParams,
                  !.parameterCount = @ + Len(whereParams)]

\* where(whereObject, operator): the query after the call, or Threw
SelectWhere(query, defs, whereObject, operator) ==
    LET Return(found) ==
            IF found.threw THEN Threw
            ELSE [threw |-> FALSE, query |-> Select_where(query, found.whereClause, found.whereParams)]
    IN Return(findWithNesting(defs, whereObject, query.parameterCount, operator))

\* join / leftJoin registering the alias before the ON object is resolved
SelectJoinRegisteringFirst(query, defs, type, otherDefinition, alias, on, fields, onOperator) ==
    LET Return(joined) ==
            IF joined.threw THEN Threw
            ELSE [ threw |-> FALSE,
                   query |-> [query EXCEPT !.selectFields = @ \o joined.joinFields,
                                           !.joinClauses = Append(@, joined.joinClause),
                                           !.parameterCount = joined.parameterCount,
                                           !.params = @ \o joined.joinParams],
                   definitions |-> SetAlias(defs, alias, otherDefinition) ]
    IN Return(join(type, otherDefinition, alias, SetAlias(defs, alias, otherDefinition), on,
                   query.parameterCount, fields, onOperator))

\* join / leftJoin: the query and the registry after the call, or Threw
SelectJoin(query, defs, type, otherDefinition, alias, on, fields, onOperator) ==
    LET Return(joined) ==
            IF joined.threw THEN Threw
            ELSE [ threw |-> FALSE,
                   query |-> [query EXCEPT !.selectFields = @ \o joined.joinFields,
                                           !.joinClauses = Append(@, joined.joinClause),
                                           !.parameterCount = joined.parameterCount,
                                           !.params = @ \o joined.joinParams],
                   definitions |-> SetAlias(defs, alias, otherDefinition) ]
    IN Return(join(type, otherDefinition, alias, defs, on, query.parameterCount, fields, onOperator))

SelectPiece(fields) == [kind |-> "select", fields |-> fields]
FromPiece(table) == [kind |-> "from", table |-> table]
WherePiece == [kind |-> "where"]
LimitPiece(ph) == [kind |-> "limit", ph |-> ph]
OffsetPiece(ph) == [kind |-> "offset", ph |-> ph]

GroupByPiece(columns) == [kind |-> "groupBy", columns |-> columns]
OrderByPiece(columns, order) == [kind |-> "orderBy", columns |-> columns, order |-> order]

\* isEntityField(key, definition)
isEntityField(key, definition) == HasField(definition, key)

\* the column list of GROUP BY and ORDER BY: a field of the root definition
\* by its qualified column, any other key quoted
KeyColumns(keys, root) ==
    [i \in 1..Len(keys.elems) |->
        IF isEntityField(keys.elems[i].v, root) THEN getDatabaseName(root, keys.elems[i].v, TRUE)
        ELSE "\"" \o keys.elems[i].v \o "\""]

\* groupBy(...keys), orderBy(...orderBy), asc() and desc()
SelectGroupBy(query, keys) == [query EXCEPT !.groupBy = keys]
SelectOrderBy(query, orderBy) == [query EXCEPT !.orderBy = orderBy]
SelectOrder(query, order) == [query EXCEPT !.order = order]

\* `if (limit)` / `if (offset)`: whether the clause is emitted
EmitsLimit(limit) == Truthy(limit)

\* execute: the text and arguments handed to executeString, and the query afterwards
SelectExecute(query, defs) ==
    LET root == Lookup(defs, "root")
        hasLimit == EmitsLimit(query.limit)
        hasOffset == Truthy(query.offset)
        limitCount == IF hasLimit THEN query.parameterCount + 1 ELSE query.parameterCount
        offsetCount == IF hasOffset THEN limitCount + 1 ELSE limitCount
    IN [ text |-> <<SelectPiece(query.selectFields), FromPiece(root.tableName)>>
                  \o Flatten(query.joinClauses)
                  \o (IF query.whereClause # << >> THEN <<WherePiece>> \o query.whereClause ELSE << >>)
                  \o (IF Truthy(query.groupBy)
                      THEN <<GroupByPiece(KeyColumns(query.groupBy, root))>> ELSE << >>)
                  \o (IF Truthy(query.orderBy)
                      THEN <<OrderByPiece(KeyColumns(query.orderBy, root),
                                          IF Truthy(query.order) THEN query.order ELSE Undefined)>>
                      ELSE << >>)
                  \o (IF hasLimit THEN <<LimitPiece(limitCount)>> ELSE << >>)
                  \o (IF hasOffset THEN <<OffsetPiece(offsetCount)>> ELSE << >>),
         args |-> query.params
                  \o (IF hasLimit THEN <<query.limit>> ELSE << >>)
                  \o (IF hasOffset THEN <<query.offset>> ELSE << >>),
         query |-> [query EXCEPT !.parameterCount = offsetCount] ]

----------------------------------------------------------------------------
(* Update (queryBuilders/update.ts) and queryBuilders/delete.ts *)

\* `<column> AS "<field>"` for every field of the definition, in declaration order
returnFieldList(definition) ==
    LET list == getFieldList(definition, Undefined)
    IN [i \in 1..Len(list) |-> list[i][1] \o " AS \"" \o list[i][2] \o "\""]

\* <column> = $<ph>::<cast> of a SET clause
SetPiece(column, ph, cast) == [kind |-> "set", column |-> column, ph |-> ph, cast |-> cast]

RECURSIVE updateLoop(_, _, _, _)
updateLoop(definition, newEntity, i, acc) ==
    IF i > Len(definition.fieldNames) THEN acc
    ELSE LET typescriptFieldName == definition.fieldNames[i]
             databaseFieldName == "\"" \o getDatabaseName(definition, typescriptFieldName, FALSE) \o "\""
             value == Get(newEntity, typescriptFieldName)
         IN IF value = Undefined THEN updateLoop(definition, newEntity, i + 1, acc)
            ELSE LET databaseType == getDatabaseType(definition, typescriptFieldName, value)
                 IN updateLoop(definition, newEntity, i + 1,
                        [ parameterCount |-> acc.parameterCount + 1,
                          updateParams |-> Append(acc.updateParams,
                                                  IF databaseType = "jsonb" THEN JSONstringify(value)
                                                  ELSE value),
                          updateFields |-> Append(acc.updateFields,
                                                  SetPiece(databaseFieldName, acc.parameterCount + 1,
                                                           databaseType)) ])

UpdateNew(definition, newEntity) ==
    LET done == updateLoop(definition, newEntity, 1,
                           [parameterCount |-> 0, updateParams |-> << >>, updateFields |-> << >>])
    IN [ class |-> "Update",
         definition |-> definition,
         query |-> [ updateFields |-> done.updateFields,
                     updateParams |-> done.updateParams,
                     returnFields |-> returnFieldList(definition),
                     whereClause |-> << >>,
                     whereParams |-> << >>,
                     parameterCount |-> done.parameterCount ] ]

\* the counter where(whereObject) hands to find as paramCountStart
WhereParamCountStart(query) == query.parameterCount

\* where(whereObject) keeping only what find returns: the RETURNING list is lost
FlatWhereWithoutSpread(query, definition, whereObject) ==
    LET Return(found) ==
            IF found.threw THEN Threw
            ELSE [ threw |-> FALSE,
                   query |-> [query EXCEPT !.whereClause = found.whereClause,
                                           !.whereParams = found.whereParams,
                                           !.parameterCount = found.parameterCount,
                                           !.returnFields = << >>] ]
    IN Return(find(definition, whereObject, WhereParamCountStart(query), "AND", ""))

\* where(whereObject) of Update and of Delete: { ...this.query, ...find(...) }
FlatWhere(query, definition, whereObject) ==
    LET Return(found) ==
            IF found.threw THEN Threw
            ELSE [ threw |-> FALSE,
                   query |-> [query EXCEPT !.whereClause = found.whereClause,
                                           !.whereParams = found.whereParams,
                                           !.parameterCount = found.parameterCount] ]
    IN Return(find(definition, whereObject, WhereParamCountStart(query), "AND", ""))

UpdatePiece(table) == [kind |-> "update", table |-> table]
DeletePiece(table) == [kind |-> "delete", table |-> table]
ReturningPiece(fields) == [kind |-> "returning", fields |-> fields]

UpdateExecute(query, definition) ==
    [ text |-> <<UpdatePiece(definition.tableName)>>
               \o query.updateFields
               \o (IF query.whereClause # << >> THEN <<WherePiece>> \o query.whereClause ELSE << >>)
               \o <<ReturningPiece(query.returnFields)>>,
      args |-> query.updateParams \o query.whereParams,
      query |-> query ]

DeleteNew(definition) ==
    [ class |-> "Delete",
      definition |-> definition,
      query |-> [ returnFields |-> returnFieldList(definition),
                  whereClause |-> << >>,
                  whereParams |-> << >>,
                  parameterCount |-> 0 ] ]

DeleteExecute(query, definition) ==
    [ text |-> <<DeletePiece(definition.tableName)>>
               \o (IF query.whereClause # << >> THEN <<WherePiece>> \o query.whereClause ELSE << >>)
               \o <<ReturningPiece(query.returnFields)>>,
      args |-> query.whereParams,
      query |-> query ]

----------------------------------------------------------------------------
(* queryBuilders/insert.ts *)

getParameter(databaseType, value) ==
    IF LooseNull(value) THEN Null
    ELSE IF databaseType = "jsonb" THEN JSONstringify(value)
    ELSE value

\* $<ph>::<cast> of the values SELECT
PlaceholderPiece(ph, cast) == [kind |-> "placeholder", ph |-> ph, cast |-> cast]

\* binding a field as soon as any row defines it
BindsFieldOfAnyRow(newEntities, typescriptFieldName) ==
    IF isArray(newEntities)
    THEN \E r \in 1..Len(newEntities.elems) : Get(newEntities.elems[r], typescriptFieldName) # Undefined
    ELSE Get(newEntities, typescriptFieldName) # Undefined

\* whether the constructor binds the field: decided on the first row in bulk mode
BindsField(newEntities, typescriptFieldName) ==
    IF isArray(newEntities)
    THEN Get(newEntities.elems[1], typescriptFieldName) # Undefined
    ELSE Get(newEntities, typescriptFieldName) # Undefined

RECURSIVE insertLoop(_, _, _, _)
insertLoop(definition, newEntities, i, acc) ==
    IF i > Len(definition.fieldNames) THEN acc
    ELSE LET typescriptFieldName == definition.fieldNames[i]
             databaseFieldName == "\"" \o getDatabaseName(definition, typescriptFieldName, FALSE) \o "\""
         IN IF ~BindsField(newEntities, typescriptFieldName)
            THEN insertLoop(definition, newEntities, i + 1, acc)
            ELSE IF isArray(newEntities)
            THEN LET databaseType == getDatabaseType(definition, typescriptFieldName,
                                                     Get(newEntities.elems[1], typescriptFieldName))
                 IN insertLoop(definition, newEntities, i + 1,
                        [ parameterCount |-> acc.parameterCount + 1,
                          insertParams |-> Append(acc.insertParams,
                              Arr([r \in 1..Len(newEntities.elems) |->
                                      getParameter(databaseType,
                                                   Get(newEntities.elems[r], typescriptFieldName))])),
                          insertFields |-> Append(acc.insertFields, databaseFieldName),
                          insertPlaceholders |-> Append(acc.insertPlaceholders,
                              PlaceholderPiece(acc.parameterCount + 1, databaseType \o "[]")) ])
            ELSE LET databaseType == getDatabaseType(definition, typescriptFieldName,
                                                     Get(newEntities, typescriptFieldName))
                 IN insertLoop(definition, newEntities, i + 1,
                        [ parameterCount |-> acc.parameterCount + 1,
                          insertParams |-> Append(acc.insertParams,
                              getParameter(databaseType, Get(newEntities, typescriptFieldName))),
                          insertFields |-> Append(acc.insertFields, databaseFieldName),
                          insertPlaceholders |-> Append(acc.insertPlaceholders,
                              PlaceholderPiece(acc.parameterCount + 1, databaseType)) ])

\* conflictClause "" is the initial empty string
InsertNew(definition, newEntities) ==
    IF isArray(newEntities) /\ Len(newEntities.elems) = 0
    THEN [ class |-> "Insert",
           definition |-> definition,
           query |-> [ insertPlaceholders |-> << >>, insertParams |-> << >>, insertFields |-> << >>,
                       returnFields |-> << >>, conflictClause |-> "", isBulk |-> FALSE ] ]
    ELSE LET done == insertLoop(definition, newEntities, 1,
                                [ parameterCount |-> 0, insertParams |-> << >>,
                                  insertFields |-> << >>, insertPlaceholders |-> << >> ])
         IN [ class |-> "Insert",
              definition |-> definition,
              query |-> [ insertPlaceholders |-> done.insertPlaceholders,
                          insertParams |-> done.insertParams,
                          insertFields |-> done.insertFields,
                          returnFields |-> returnFieldList(definition),
                          conflictClause |-> "",
                          isBulk |-> isArray(newEntities) ] ]

\* the clause of onKeyConflictDoNothing(key), onKeyConflictDoUpdate(key, set),
\* onConstraintConflictDoNothing(constraint), onConstraintConflictDoUpdate(constraint, set)
InsertConflictClause(definition, method, target, set) ==
    CASE method = "onKeyConflictDoNothing" ->
             "ON CONFLICT (" \o getDatabaseName(definition, target, FALSE) \o ") DO NOTHING"
      [] method = "onKeyConflictDoUpdate" ->
             "ON CONFLICT (" \o getDatabaseName(definition, target, FALSE) \o ") DO UPDATE SET " \o set
      [] method = "onConstraintConflictDoNothing" ->
             "ON CONFLICT ON CONSTRAINT " \o target \o " DO NOTHING"
      [] method = "onConstraintConflictDoUpdate" ->
             "ON CONFLICT ON CONSTRAINT " \o target \o " DO UPDATE SET " \o set

\* a conflict method that keeps the clause an earlier call set
InsertConflictKeepingFirst(query, definition, method, target, set) ==
    IF query.conflictClause # "" THEN query
    ELSE [query EXCEPT !.conflictClause = InsertConflictClause(definition, method, target, set)]

\* a conflict method: the query after the call
InsertConflict(query, definition, method, target, set) ==
    [query EXCEPT !.conflictClause = InsertConflictClause(definition, method, target, set)]

InsertPiece(table, fields) == [kind |-> "insert", table |-> table, fields |-> fields]
ValuesPiece(isBulk) == [kind |-> IF isBulk THEN "selectUnnest" ELSE "selectValues"]
ConflictPiece(clause) == [kind |-> "conflict", clause |-> clause]

\* execute skipping the executor only when no conflict clause was set
InsertExecuteUnlessConflict(query, definition) ==
    IF Len(query.insertParams) = 0 /\ query.conflictClause = ""
    THEN [skipped |-> TRUE, text |-> << >>, args |-> << >>, query |-> query]
    ELSE [ skipped |-> FALSE,
           text |-> <<InsertPiece(definition.tableName, query.insertFields),
                      ValuesPiece(query.isBulk)>>
                    \o query.insertPlaceholders
                    \o (IF query.conflictClause # "" THEN <<ConflictPiece(query.conflictClause)>>
                        ELSE << >>)
                    \o <<ReturningPiece(query.returnFields)>>,
           args |-> query.insertParams,
           query |-> query ]

\* execute: skipped |-> TRUE when nothing is handed to the executor
InsertExecute(query, definition) ==
    IF Len(query.insertParams) = 0
    THEN [skipped |-> TRUE, text |-> << >>, args |-> << >>, query |-> query]
    ELSE [ skipped |-> FALSE,
           text |-> <<InsertPiece(definition.tableName, query.insertFields),
                      ValuesPiece(query.isBulk)>>
                    \o query.insertPlaceholders
                    \o (IF query.conflictClause # "" THEN <<ConflictPiece(query.conflictClause)>>
                        ELSE << >>)
                    \o <<ReturningPiece(query.returnFields)>>,
           args |-> query.insertParams,
           query |-> query ]

----------------------------------------------------------------------------
(* Bounds and inputs *)

\* chained configuration calls made on one builder
MaxCalls == 3
\* execute calls made on one builder
MaxExecutes == 2

Definitions == {countryDefinition, locationDefinition}

\* the entities select() is called on
SelectRoots == {countryDefinition}

\* where(whereObject, operator) calls: falsy and truthy scalars, null, arrays,
\* comparisons (first and later key, null inside), nested alias sub-filters
WhereCalls ==
    { [whereObject |-> Obj(<< <<"id", Num("0")>> >>), operator |-> "AND"],
      [whereObject |-> Obj(<< <<"id", Num("15")>> >>), operator |-> "AND"],
      [whereObject |-> Obj(<< <<"name", Str("test")>> >>), operator |-> "AND"],
      [whereObject |-> Obj(<< <<"name", Null>> >>), operator |-> "AND"],
      [whereObject |-> Obj(<< <<"name", Null>>, <<"id", Num("0")>> >>), operator |-> "OR"],
      [whereObject |-> Obj(<< <<"id", Arr(<<Num("15"), Num("16")>>)>> >>), operator |-> "AND"],
      [whereObject |-> Obj(<< <<"id", Arr(<<Num("15"), Num("16")>>)>>, <<"name", Str("")>> >>),
       operator |-> "AND"],
      [whereObject |-> Obj(<< <<"id", Comparison("greater", Num("2"))>> >>), operator |-> "AND"],
      [whereObject |-> Obj(<< <<"name", Str("")>>, <<"id", Comparison("lessOrEqual", Num("2"))>> >>),
       operator |-> "AND"],
      [whereObject |-> Obj(<< <<"id", Comparison("not", Null)>> >>), operator |-> "AND"],
      [whereObject |-> Obj(<< <<"L", Obj(<< <<"id", Num("16")>> >>)>> >>), operator |-> "AND"],
      [whereObject |-> Obj(<< <<"id", Num("0")>>,
                              <<"L", Obj(<< <<"name", Str("x")>>, <<"id", Num("1")>> >>)>> >>),
       operator |-> "OR"],
      [whereObject |-> Obj(<< <<"L", Obj(<< <<"name", Null>>,
                                            <<"id", Comparison("greater", Num("2"))>> >>)>> >>),
       operator |-> "AND"],
      [whereObject |-> Obj(<< <<"id", Num("0")>>, <<"name", Null>>, <<"isDeleted", Bool("false")>> >>),
       operator |-> "AND"],
      [whereObject |-> Obj(<< <<"region", Arr(<<Str("Europe")>>)>> >>), operator |-> "AND"],
      [whereObject |-> Obj(<< <<"id", Arr(<< >>)>> >>), operator |-> "AND"] }

\* the WhereObjects given to Update.where and Delete.where
FlatWhereObjects == {c.whereObject : c \in WhereCalls}

\* join / leftJoin calls: a root reference with a literal, falsy literals, null,
\* two literals, a nested reference to the alias L
JoinCalls ==
    { [ type |-> "LEFT JOIN", entity |-> locationDefinition, alias |-> "L",
        on |-> Obj(<< <<"country", JoinRef("id")>>, <<"name", Str("Test 1")>> >>),
        fields |-> Obj(<< <<"locationName", Str("name")>> >>), onOperator |-> "AND" ],
      [ type |-> "JOIN", entity |-> locationDefinition, alias |-> "L",
        on |-> Obj(<< <<"name", Str("a")>>, <<"country", Num("15")>> >>),
        fields |-> Obj(<< >>), onOperator |-> "OR" ],
      [ type |-> "JOIN", entity |-> locationDefinition, alias |-> "L2",
        on |-> Obj(<< <<"country", Num("0")>> >>),
        fields |-> Obj(<< >>), onOperator |-> "AND" ],
      [ type |-> "LEFT JOIN", entity |-> locationDefinition, alias |-> "L2",
        on |-> Obj(<< <<"name", Str("")>>, <<"country", Null>> >>),
        fields |-> Obj(<< >>), onOperator |-> "AND" ],
      [ type |-> "JOIN", entity |-> countryDefinition, alias |-> "C",
        on |-> Obj(<< <<"isDeleted", Bool("false")>>, <<"id", Num("16")>> >>),
        fields |-> Obj(<< <<"regionName", Str("name")>> >>), onOperator |-> "AND" ],
      [ type |-> "LEFT JOIN", entity |-> locationDefinition, alias |-> "LO",
        on |-> Obj(<< <<"id", Obj(<< <<"L", Str("id")>> >>)>> >>),
        fields |-> Obj(<< <<"owner", Str("name")>> >>), onOperator |-> "AND" ],
      [ type |-> "JOIN", entity |-> locationDefinition, alias |-> "L",
        on |-> Obj(<< <<"country", JoinRef("id")>> >>),
        fields |-> Obj(<< <<"locationName", Str("name")>> >>), onOperator |-> "AND" ],
      [ type |-> "JOIN", entity |-> locationDefinition, alias |-> "LO",
        on |-> Obj(<< <<"country", Obj(<< <<"LO", Str("id")>> >>)>> >>),
        fields |-> Obj(<< >>), onOperator |-> "AND" ],
      [ type |-> "JOIN", entity |-> locationDefinition, alias |-> "L2",
        on |-> Obj(<< <<"name", Obj(<< >>)>> >>),
        fields |-> Obj(<< >>), onOperator |-> "AND" ],
      [ type |-> "JOIN", entity |-> locationDefinition, alias |-> "L2",
        on |-> Obj(<< <<"country", Arr(<< >>)>>, <<"name", Str("a")>> >>),
        fields |-> Obj(<< >>), onOperator |-> "AND" ],
      [ type |-> "JOIN", entity |-> locationDefinition, alias |-> "L2",
        on |-> Obj(<< <<"country", Arr(<<Num("15")>>)>> >>),
        fields |-> Obj(<< >>), onOperator |-> "AND" ],
      [ type |-> "JOIN", entity |-> locationDefinition, alias |-> "root",
        on |-> Obj(<< <<"country", JoinRef("id")>> >>),
        fields |-> Obj(<< >>), onOperator |-> "AND" ],
      [ type |-> "LEFT JOIN", entity |-> locationDefinition, alias |-> "L1",
        on |-> Obj(<< <<"country", JoinRef("id")>> >>),
        fields |-> Obj(<< <<"name1", Str("name")>>, <<"locationId", Str("id")>>,
                          <<"name2", Str("name")>> >>),
        onOperator |-> "AND" ] }

LimitValues == {Num("0"), Num("2")}
OffsetValues == {Num("0"), Num("1")}

\* update(newEntity) arguments: one field, two fields, a null field
UpdateEntities ==
    { Obj(<< <<"isDeleted", Bool("true")>> >>),
      Obj(<< <<"region", Str("Asia")>>, <<"name", Str("New name")>> >>),
      Obj(<< <<"name", Str("n")>>, <<"id", Num("7")>>, <<"isDeleted", Bool("false")>> >>) }

Row15 == Obj(<< <<"id", Num("15")>>, <<"name", Str("test")>>, <<"isDeleted", Bool("false")>> >>)
Row16 == Obj(<< <<"id", Num("16")>>, <<"name", Str("test 2")>>, <<"isDeleted", Bool("false")>>,
                <<"region", Str("Americas")>> >>)
Row17 == Obj(<< <<"id", Num("17")>>, <<"name", Str("test 3")>>, <<"region", Str("Asia")>> >>)
Row0 == Obj(<< <<"id", Num("0")>>, <<"name", Str("zero")>>, <<"isDeleted", Bool("true")>>,
               <<"region", Null>> >>)

InsertRows == {Row15, Row16, Row17, Row0}

\* insert(entity | entities) arguments of a builder session
InsertInputs ==
    { Row15, Row16, Obj(<< >>), Arr(<< >>),
      Arr(<<Row15, Row16>>), Arr(<<Row16, Row15, Row17>>), Arr(<<Row0>>) }

\* calls of the four conflict methods
ConflictCalls ==
    { [method |-> "onKeyConflictDoNothing", target |-> "name", set |-> ""],
      [method |-> "onKeyConflictDoUpdate", target |-> "isDeleted", set |-> "name = EXCLUDED.name"],
      [method |-> "onConstraintConflictDoNothing", target |-> "country_name_key", set |-> ""],
      [method |-> "onConstraintConflictDoUpdate", target |-> "country_name_key",
       set |-> "is_deleted = false"] }

----------------------------------------------------------------------------
(* The session of one builder *)

NoBuilder == [class |-> "none"]
NoCall == [name |-> "none"]
\* the country table, empty, its id sequence at its start
EmptyDatabase == [rows |-> << >>, serial |-> 1]
NoHistory == [calls |-> 0, executes |-> 0, run |-> 0, joined |-> 0]

Init ==
    /\ builder = NoBuilder
    /\ definitions = << >>
    /\ sent = << >>
    /\ db = EmptyDatabase
    /\ call = NoCall
    /\ history = NoHistory

\* a builder is configured first and executed afterwards
CanCall(class) ==
    /\ builder.class = class
    /\ history.calls < MaxCalls
    /\ history.executes = 0

\* a configuration call other than where ends the run of where calls
Called ==
    [ calls |-> history.calls + 1, executes |-> history.executes, run |-> 0,
      joined |-> history.joined ]

\* a where call that returned: the run keeps the state its first call found,
\* joined counts the joins registered before the call
WhereCalled(whereCall) ==
    [ calls |-> history.calls + 1,
      executes |-> history.executes,
      run |-> history.run + 1,
      joined |-> IF builder.class = "Select" THEN Len(builder.query.joinClauses) ELSE 0,
      base |-> IF history.run = 0 THEN builder ELSE history.base,
      last |-> whereCall ]

\* a call that threw leaves the builder as it was
ThrewCalled == [history EXCEPT !.calls = @ + 1]

Executed == [history EXCEPT !.executes = @ + 1]

\* Entity.select()
NewSelect ==
    /\ builder.class = "none"
    /\ \E definition \in SelectRoots :
          /\ builder' = SelectNew(definition, getFieldList(definition, Undefined))
          /\ definitions' = << <<"root", definition>> >>
    /\ call' = [name |-> "select"]
    /\ UNCHANGED <<sent, db, history>>

SelectWhereCall ==
    /\ CanCall("Select")
    /\ \E c \in WhereCalls :
          LET Returned(after) ==
                  IF after.threw
                  THEN /\ history' = ThrewCalled
                       /\ UNCHANGED builder
                  ELSE /\ history' = WhereCalled(c)
                       /\ builder' = [builder EXCEPT !.query = after.query]
          IN /\ call' = [ name |-> "findWithNesting", definitions |-> definitions,
                          whereObject |-> c.whereObject,
                          paramCountStart |-> builder.query.parameterCount,
                          operator |-> c.operator,
                          result |-> findWithNesting(definitions, c.whereObject,
                                                     builder.query.parameterCount, c.operator) ]
             /\ Returned(SelectWhere(builder.query, definitions, c.whereObject, c.operator))
    /\ UNCHANGED <<definitions, sent, db>>

SelectJoinCall ==
    /\ CanCall("Select")
    /\ \E c \in JoinCalls :
          LET Returned(after) ==
                  IF after.threw
                  THEN /\ history' = ThrewCalled
                       /\ UNCHANGED <<builder, definitions>>
                  ELSE /\ history' = Called
                       /\ builder' = [builder EXCEPT !.query = after.query]
                       /\ definitions' = after.definitions
          IN /\ call' = [ name |-> "join", alias |-> c.alias, definitions |-> definitions,
                          joinedTableDefinition |-> c.entity, on |-> c.on, fields |-> c.fields,
                          paramCountStart |-> builder.query.parameterCount,
                          onOperator |-> c.onOperator,
                          result |-> join(c.type, c.entity, c.alias, definitions, c.on,
                                          builder.query.parameterCount, c.fields, c.onOperator) ]
             /\ Returned(SelectJoin(builder.query, definitions, c.type, c.entity, c.alias, c.on,
                                    c.fields, c.onOperator))
    /\ UNCHANGED <<sent, db>>

SelectLimit ==
    /\ CanCall("Select")
    /\ \E limit \in LimitValues :
          builder' = [builder EXCEPT !.query.limit = limit]
    /\ call' = [name |-> "limit"]
    /\ history' = Called
    /\ UNCHANGED <<definitions, sent, db>>

SelectOffset ==
    /\ CanCall("Select")
    /\ \E offset \in OffsetValues :
          builder' = [builder EXCEPT !.query.offset = offset]
    /\ call' = [name |-> "offset"]
    /\ history' = Called
    /\ UNCHANGED <<definitions, sent, db>>

SelectExecuteCall ==
    /\ builder.class = "Select"
    /\ history.executes < MaxExecutes
    /\ LET Send(done) ==
               /\ sent' = Append(sent, [text |-> done.text, args |-> done.args])
               /\ builder' = [builder EXCEPT !.query = done.query]
       IN Send(SelectExecute(builder.query, definitions))
    /\ call' = [name |-> "execute"]
    /\ history' = Executed
    /\ UNCHANGED <<definitions, db>>

\* Entity.update(newEntity)
NewUpdate ==
    /\ builder.class = "none"
    /\ \E definition \in Definitions, newEntity \in UpdateEntities :
          builder' = UpdateNew(definition, newEntity)
    /\ call' = [name |-> "update"]
    /\ UNCHANGED <<definitions, sent, db, history>>

\* Entity.delete()
NewDelete ==
    /\ builder.class = "none"
    /\ \E definition \in Definitions :
          builder' = DeleteNew(definition)
    /\ call' = [name |-> "delete"]
    /\ UNCHANGED <<definitions, sent, db, history>>

\* Update.where(whereObject) and Delete.where(whereObject)
FlatWhereCall(class) ==
    /\ CanCall(class)
    /\ \E whereObject \in FlatWhereObjects :
          LET Returned(after) ==
                  IF after.threw
                  THEN /\ history' = ThrewCalled
                       /\ UNCHANGED builder
                  ELSE /\ history' = WhereCalled([whereObject |-> whereObject, operator |-> "AND"])
                       /\ builder' = [builder EXCEPT !.query = after.query]
          IN /\ call' = [ name |-> "find", definition |-> builder.definition,
                          whereObject |-> whereObject,
                          paramCountStart |-> builder.query.parameterCount,
                          operator |-> "AND",
                          result |-> find(builder.definition, whereObject,
                                          builder.query.parameterCount, "AND", "") ]
             /\ Returned(FlatWhere(builder.query, builder.definition, whereObject))
    /\ UNCHANGED <<definitions, sent, db>>

UpdateWhereCall == FlatWhereCall("Update")

DeleteWhereCall == FlatWhereCall("Delete")

UpdateExecuteCall ==
    /\ builder.class = "Update"
    /\ history.executes < MaxExecutes
    /\ LET Send(done) == sent' = Append(sent, [text |-> done.text, args |-> done.args])
       IN Send(UpdateExecute(builder.query, builder.definition))
    /\ call' = [name |-> "execute"]
    /\ history' = Executed
    /\ UNCHANGED <<builder, definitions, db>>

DeleteExecuteCall ==
    /\ builder.class = "Delete"
    /\ history.executes < MaxExecutes
    /\ LET Send(done) == sent' = Append(sent, [text |-> done.text, args |-> done.args])
       IN Send(DeleteExecute(builder.query, builder.definition))
    /\ call' = [name |-> "execute"]
    /\ history' = Executed
    /\ UNCHANGED <<builder, definitions, db>>

\* Entity.insert(entity | entities)
NewInsert ==
    /\ builder.class = "none"
    /\ \E newEntities \in InsertInputs :
          /\ builder' = InsertNew(countryDefinition, newEntities)
          /\ history' = [calls |-> 0, executes |-> 0, run |-> 0, joined |-> 0, input |-> newEntities]
    /\ call' = [name |-> "insert"]
    /\ UNCHANGED <<definitions, sent, db>>

\* one of the conflict methods of Insert
InsertConflictCall ==
    /\ CanCall("Insert")
    /\ \E c \in ConflictCalls :
          /\ builder' = [builder EXCEPT !.query = InsertConflict(builder.query, builder.definition,
                                                                 c.method, c.target, c.set)]
          /\ call' = [name |-> c.method, target |-> c.target, set |-> c.set]
    /\ history' = [history EXCEPT !.calls = @ + 1]
    /\ UNCHANGED <<definitions, sent, db>>

InsertExecuteCall ==
    /\ builder.class = "Insert"
    /\ history.executes < MaxExecutes
    /\ LET Send(done) ==
               /\ sent' = IF done.skipped THEN sent
                          ELSE Append(sent, [text |-> done.text, args |-> done.args])
               /\ call' = [ name |-> "execute", skipped |-> done.skipped,
                            result |-> IF done.skipped THEN [rows |-> << >>, rowCount |-> 0]
                                       ELSE [rows |-> Undefined, rowCount |-> Undefined] ]
       IN Send(InsertExecute(builder.query, builder.definition))
    /\ history' = Executed
    /\ UNCHANGED <<builder, definitions, db>>

Next ==
    \/ NewSelect
    \/ SelectWhereCall
    \/ SelectJoinCall
    \/ SelectLimit
    \/ SelectOffset
    \/ SelectExecuteCall
    \/ NewUpdate
    \/ UpdateWhereCall
    \/ UpdateExecuteCall
    \/ NewDelete
    \/ DeleteWhereCall
    \/ DeleteExecuteCall
    \/ NewInsert
    \/ InsertConflictCall
    \/ InsertExecuteCall

Spec == Init /\ [][Next]_vars

----------------------------------------------------------------------------
(* The database behind the executor: the country table of the test suite  *)
(*   id SERIAL NOT NULL PRIMARY KEY, name TEXT NOT NULL, region TEXT,      *)
(*   is_deleted BOOLEAN DEFAULT FALSE NOT NULL                             *)
(* A stored row is a record over the logical field names.                  *)

\* rows one database may hold
MaxRows == 3

\* the value a column takes when the statement does not list it; nth counts the
\* rows of the statement from 0
ColumnDefault(field, serial, nth) ==
    CASE field = "id" -> Num(ToString(serial + nth))
      [] field = "isDeleted" -> Bool("false")
      [] OTHER -> Null

NotNullColumn(field) == field \in {"id", "name", "isDeleted"}

IndexOf(seq, x) ==
    IF \E i \in 1..Len(seq) : seq[i] = x THEN CHOOSE i \in 1..Len(seq) : seq[i] = x ELSE 0

\* INSERT INTO <table> (<columns>) SELECT ... RETURNING ...: the rows the
\* statement builds, one per element of the unnested arrays (one in single mode)
InsertedRows(definition, database, text, args) ==
    LET columns == text[1].fields
        bulk == text[2].kind = "selectUnnest"
        holders == SelectSeq(text, LAMBDA piece : piece.kind = "placeholder")
        count == IF bulk THEN Len(args[holders[1].ph].elems) ELSE 1
        Bound(field, r) ==
            LET j == IndexOf(columns, "\"" \o getDatabaseName(definition, field, FALSE) \o "\"")
            IN IF j = 0 THEN ColumnDefault(field, database.serial, r - 1)
               ELSE IF bulk THEN args[holders[j].ph].elems[r]
               ELSE args[holders[j].ph]
    IN [r \in 1..count |-> [field \in DOMAIN definition.fields |-> Bound(field, r)]]

\* the statement fails as a whole: a NULL in a NOT NULL column or a primary key twice
InsertViolation(database, rows) ==
    \/ \E r \in 1..Len(rows) : \E field \in DOMAIN rows[r] :
            NotNullColumn(field) /\ rows[r][field] = Null
    \/ \E r \in 1..Len(rows), o \in 1..Len(database.rows) : rows[r].id = database.rows[o].id
    \/ \E r, o \in 1..Len(rows) : r # o /\ rows[r].id = rows[o].id

\* executeString of an INSERT: the rows returned (RETURNING lists every field)
\* and the database afterwards
RunInsert(definition, database, text, args) ==
    LET rows == InsertedRows(definition, database, text, args)
        usesSerial == IndexOf(text[1].fields, "\"id\"") = 0
    IN IF InsertViolation(database, rows)
       THEN [ok |-> FALSE, rows |-> << >>, database |-> database]
       ELSE [ ok |-> TRUE, rows |-> rows,
              database |-> [ rows |-> database.rows \o rows,
                             serial |-> IF usesSerial THEN database.serial + Len(rows)
                                        ELSE database.serial ] ]

\* the logical field a `<table>.<column>` of the text names
FieldOfColumn(definition, column) ==
    CHOOSE field \in DOMAIN definition.fields : getDatabaseName(definition, field, TRUE) = column

\* one condition of a WHERE clause on one row
RowSatisfies(definition, piece, args, row) ==
    CASE piece.kind = "isnull" -> row[FieldOfColumn(definition, piece.column)] = Null
      [] piece.kind = "predicate" /\ piece.rel = "=" ->
            row[FieldOfColumn(definition, piece.column)] = args[piece.ph]
      [] piece.kind = "predicate" /\ piece.rel = "= ANY" ->
            \E i \in 1..Len(args[piece.ph].elems) :
                row[FieldOfColumn(definition, piece.column)] = args[piece.ph].elems[i]
      [] OTHER -> FALSE

\* executeString of a SELECT on the country table alone: every row when the
\* text has no WHERE, else the rows satisfying its conditions under its connective
RunSelect(definition, database, text, args) ==
    LET at == IndexOf([i \in 1..Len(text) |-> text[i].kind], "where")
        conditions == IF at = 0 THEN << >>
                      ELSE SelectSeq(SubSeq(text, at + 1, Len(text)),
                                     LAMBDA piece : piece.kind \in {"isnull", "predicate"})
        anyOr == \E i \in 1..Len(text) : text[i].kind = "connective" /\ text[i].operator = "OR"
        Keeps(row) ==
            IF anyOr
            THEN \E i \in 1..Len(conditions) : RowSatisfies(definition, conditions[i], args, row)
            ELSE \A i \in 1..Len(conditions) : RowSatisfies(definition, conditions[i], args, row)
    IN SelectSeq(database.rows, Keeps)

----------------------------------------------------------------------------
(* functional/maybe.ts and the Entity facade (zorm.ts) *)

Just(value) == [just |-> TRUE, value |-> value]
Nothing == [just |-> FALSE]

\* ObjectArrayPromise.first: Maybe.fromOptional(rows[0])
first(rows) == IF Len(rows) > 0 THEN Just(rows[1]) ELSE Nothing

\* the WhereObject Entity.get builds: { [primaryKeyFieldName]: key }
PrimaryKeyWhere(definition, key) == Obj(<< <<definition.primaryKeyFieldName, key>> >>)

\* Entity.get(database, key): select().where({pk: key}).execute(database).first()
EntityGet(definition, database, key) ==
    LET select == SelectNew(definition, getFieldList(definition, Undefined))
        defs == << <<"root", definition>> >>
        Run(done) ==
            [ threw |-> FALSE,
              sent |-> <<[text |-> done.text, args |-> done.args]>>,
              result |-> first(RunSelect(definition, database, done.text, done.args)) ]
        Execute(filtered) ==
            IF filtered.threw THEN [threw |-> TRUE, sent |-> << >>]
            ELSE Run(SelectExecute(filtered.query, defs))
    IN Execute(SelectWhere(select.query, defs, PrimaryKeyWhere(definition, key), "AND"))

\* Entity.exists(database, key): get(database, key).map(() => true).withDefault(false)
EntityExists(definition, database, key) ==
    LET Map(got) ==
            IF got.threw THEN got
            ELSE [threw |-> FALSE, sent |-> got.sent, result |-> got.result.just]
    IN Map(EntityGet(definition, database, key))

\* Entity.createBulk(database, newEntities): insert(newEntities).execute(database)
EntityCreateBulk(definition, database, newEntities) ==
    LET Ran(done, ran) ==
            [ ok |-> ran.ok,
              sent |-> <<[text |-> done.text, args |-> done.args]>>,
              rows |-> ran.rows,
              database |-> ran.database ]
        Execute(done) ==
            IF done.skipped
            THEN [ok |-> TRUE, sent |-> << >>, rows |-> << >>, database |-> database]
            ELSE Ran(done, RunInsert(definition, database, done.text, done.args))
    IN Execute(InsertExecute(InsertNew(definition, newEntities).query, definition))

----------------------------------------------------------------------------
(* The Entity facade over one database *)

\* a row leaving its id, region and isDeleted to the database
RowNew == Obj(<< <<"name", Str("new")>> >>)

\* rows given to one createBulk
MaxBulk == 2

\* createBulk arguments: up to MaxBulk different rows of InsertRows and RowNew
BulkInputs ==
    LET pool == InsertRows \cup {RowNew}
    IN { Arr(rows) : rows \in
           { r \in UNION {[1..n -> pool] : n \in 0..MaxBulk} :
               \A i, j \in DOMAIN r : i # j => r[i] # r[j] } }

\* primary keys asked for: falsy, taken from the sequence, given by the rows
GetKeys == {Num("0"), Num("1"), Num("15"), Num("16"), Num("17")}

CreateBulkCall ==
    /\ \E newEntities \in BulkInputs :
          /\ Len(db.rows) + Len(newEntities.elems) <= MaxRows
          /\ LET Returned(done) ==
                     /\ db' = done.database
                     /\ sent' = done.sent
                     /\ call' = [ name |-> "createBulk", newEntities |-> newEntities,
                                  ok |-> done.ok, result |-> done.rows ]
             IN Returned(EntityCreateBulk(countryDefinition, db, newEntities))
    /\ UNCHANGED <<builder, definitions, history>>

GetCall ==
    /\ \E key \in GetKeys :
          LET Returned(got) ==
                  /\ sent' = got.sent
                  /\ call' = [ name |-> "get", key |-> key, threw |-> got.threw,
                               result |-> IF got.threw THEN Nothing ELSE got.result ]
          IN Returned(EntityGet(countryDefinition, db, key))
    /\ UNCHANGED <<builder, definitions, db, history>>

ExistsCall ==
    /\ \E key \in GetKeys :
          LET Returned(got) ==
                  /\ sent' = got.sent
                  /\ call' = [ name |-> "exists", key |-> key, threw |-> got.threw,
                               result |-> IF got.threw THEN FALSE ELSE got.result ]
          IN Returned(EntityExists(countryDefinition, db, key))
    /\ UNCHANGED <<builder, definitions, db, history>>

\* the field lists given to Entity.select: one field, two fields in both
\* orders, the empty list, and the omitted argument
SelectFieldLists ==
    { Undefined,
      Arr(<< >>),
      Arr(<<Str("name")>>),
      Arr(<<Str("region"), Str("id")>>),
      Arr(<<Str("id"), Str("region")>>),
      Arr(<<Str("isDeleted"), Str("name"), Str("id")>>) }

\* Entity.select(fields)
EntitySelect(definition, fields) == SelectNew(definition, getFieldList(definition, fields))

\* Entity.select(fields).execute(database)
SelectFieldsCall ==
    /\ \E fields \in SelectFieldLists :
          LET Send(select, done) ==
                  /\ sent' = <<[text |-> done.text, args |-> done.args]>>
                  /\ call' = [ name |-> "select", fields |-> fields,
                               selectFields |-> select.query.selectFields ]
              Execute(select) ==
                  Send(select, SelectExecute(select.query, << <<"root", countryDefinition>> >>))
          IN Execute(EntitySelect(countryDefinition, fields))
    /\ UNCHANGED <<builder, definitions, db, history>>

NextEntity ==
    \/ CreateBulkCall
    \/ GetCall
    \/ ExistsCall
    \/ SelectFieldsCall

SpecEntity == Init /\ [][NextEntity]_vars

----------------------------------------------------------------------------
(* Two builders made by one Entity *)

\* In this specification builder is the pair of builders, each holding the
\* index of its alias registry; definitions holds the Entity's definition
\* object and the registries; history counts each builder's calls.

\* chained calls made on one builder
MaxPairCalls == 2

\* the two builders
Builders == {1, 2}

\* the registry never shared: one object for every builder
SharedRegistry(i) == 1

\* `this.definitions = { root: definition }`: the constructor makes a new
\* registry object for its builder
RegistryOf(i) == i

\* calls made on the builders of a pair
PairWhereCalls ==
    { [whereObject |-> Obj(<< <<"id", Num("0")>> >>), operator |-> "AND"],
      [whereObject |-> Obj(<< <<"name", Null>> >>), operator |-> "AND"] }

PairJoinCalls == {c \in JoinCalls : c.alias \in {"root", "L1"}}

PairConflictCalls == {c \in ConflictCalls : c.method = "onKeyConflictDoNothing"}

\* the builders an Entity makes: select(), update(newEntity), delete(), insert(entity)
PairNewBuilders(definition) ==
    { SelectNew(definition, getFieldList(definition, Undefined)),
      UpdateNew(definition, Obj(<< <<"isDeleted", Bool("true")>> >>)),
      DeleteNew(definition),
      InsertNew(definition, Row15) }

InitPair ==
    /\ builder = [i \in Builders |-> NoBuilder]
    /\ definitions = [entity |-> countryDefinition, registries |-> [i \in Builders |-> << >>]]
    /\ sent = << >>
    /\ db = EmptyDatabase
    /\ call = NoCall
    /\ history = [i \in Builders |-> [calls |-> 0, executed |-> FALSE]]

\* what the builder hands to the executor when executed now
Serialise(b, heap) ==
    LET Sent(done) == [text |-> done.text, args |-> done.args]
    IN CASE b.class = "Select" -> Sent(SelectExecute(b.query, heap.registries[b.registry]))
         [] b.class = "Update" -> Sent(UpdateExecute(b.query, b.definition))
         [] b.class = "Delete" -> Sent(DeleteExecute(b.query, b.definition))
         [] b.class = "Insert" -> Sent(InsertExecute(b.query, b.definition))
         [] OTHER -> [text |-> << >>, args |-> << >>]

PairCanCall(i, class) ==
    /\ builder[i].class = class
    /\ history[i].calls < MaxPairCalls
    /\ ~history[i].executed

PairCalled(i) == [history EXCEPT ![i].calls = @ + 1]

\* entity.select(), entity.update(...), entity.delete() or entity.insert(...)
PairNew(i) ==
    /\ builder[i].class = "none"
    /\ \E made \in PairNewBuilders(definitions.entity) :
          /\ builder' = [builder EXCEPT ![i] =
                            [c \in DOMAIN made \cup {"registry"} |->
                                IF c = "registry" THEN RegistryOf(i) ELSE made[c]]]
          /\ definitions' = IF made.class = "Select"
                            THEN [definitions EXCEPT !.registries[RegistryOf(i)] =
                                                        << <<"root", definitions.entity>> >>]
                            ELSE definitions
    /\ call' = [who |-> i, name |-> "new"]
    /\ UNCHANGED <<sent, db, history>>

PairSelectWhere(i) ==
    /\ PairCanCall(i, "Select")
    /\ \E c \in PairWhereCalls :
          LET Returned(after) ==
                  IF after.threw THEN UNCHANGED builder
                  ELSE builder' = [builder EXCEPT ![i].query = after.query]
          IN Returned(SelectWhere(builder[i].query, definitions.registries[builder[i].registry],
                                  c.whereObject, c.operator))
    /\ call' = [who |-> i, name |-> "where"]
    /\ history' = PairCalled(i)
    /\ UNCHANGED <<definitions, sent, db>>

PairSelectJoin(i) ==
    /\ PairCanCall(i, "Select")
    /\ \E c \in PairJoinCalls :
          LET Returned(after) ==
                  IF after.threw THEN UNCHANGED <<builder, definitions>>
                  ELSE /\ builder' = [builder EXCEPT ![i].query = after.query]
                       /\ definitions' = [definitions EXCEPT !.registries[builder[i].registry] =
                                                                 after.definitions]
          IN Returned(SelectJoin(builder[i].query, definitions.registries[builder[i].registry],
                                 c.type, c.entity, c.alias, c.on, c.fields, c.onOperator))
    /\ call' = [who |-> i, name |-> "join"]
    /\ history' = PairCalled(i)
    /\ UNCHANGED <<sent, db>>

PairSelectLimit(i) ==
    /\ PairCanCall(i, "Select")
    /\ \E limit \in LimitValues :
          builder' = [builder EXCEPT ![i].query.limit = limit]
    /\ call' = [who |-> i, name |-> "limit"]
    /\ history' = PairCalled(i)
    /\ UNCHANGED <<definitions, sent, db>>

PairFlatWhere(i) ==
    /\ PairCanCall(i, "Update") \/ PairCanCall(i, "Delete")
    /\ \E c \in PairWhereCalls :
          LET Returned(after) ==
                  IF after.threw THEN UNCHANGED builder
                  ELSE builder' = [builder EXCEPT ![i].query = after.query]
          IN Returned(FlatWhere(builder[i].query, builder[i].definition, c.whereObject))
    /\ call' = [who |-> i, name |-> "where"]
    /\ history' = PairCalled(i)
    /\ UNCHANGED <<definitions, sent, db>>

PairInsertConflict(i) ==
    /\ PairCanCall(i, "Insert")
    /\ \E c \in PairConflictCalls :
          builder' = [builder EXCEPT ![i].query =
                         InsertConflict(builder[i].query, builder[i].definition,
                                        c.method, c.target, c.set)]
    /\ call' = [who |-> i, name |-> "conflict"]
    /\ history' = PairCalled(i)
    /\ UNCHANGED <<definitions, sent, db>>

\* execute(database) of either class; a Select keeps the counter execute advanced
PairExecute(i) ==
    /\ builder[i].class # "none"
    /\ ~history[i].executed
    /\ LET Send(done) ==
               /\ sent' = Append(sent, [who |-> i, text |-> done.text, args |-> done.args])
               /\ builder' = IF builder[i].class = "Select"
                             THEN [builder EXCEPT ![i].query =
                                      SelectExecute(builder[i].query,
                                                    definitions.registries[builder[i].registry]).query]
                             ELSE builder
       IN Send(Serialise(builder[i], definitions))
    /\ call' = [who |-> i, name |-> "execute"]
    /\ history' = [history EXCEPT ![i].executed = TRUE]
    /\ UNCHANGED <<definitions, db>>

NextPair ==
    \E i \in Builders :
        \/ PairNew(i)
        \/ PairSelectWhere(i)
        \/ PairSelectJoin(i)
        \/ PairSelectLimit(i)
        \/ PairFlatWhere(i)
        \/ PairInsertConflict(i)
        \/ PairExecute(i)

SpecPair == InitPair /\ [][NextPair]_vars

----------------------------------------------------------------------------
(* DBResultPromise.parseErrors *)

\* In this specification builder is the DBResultPromise of a query and call
\* records what parseErrors(errorMapping) settles to.

\* Result.ok(value) and Result.err(error)
Ok(value) == [result |-> "ok", value |-> value]
Err(error) == [result |-> "err", error |-> error]

\* an SQLSTATE string: its first two characters are the class
SqlState(class, rest) == [t |-> "string", v |-> class \o rest, class |-> class]

\* code.startsWith('23')
StartsWith23(code) == code.class = "23"

\* `${value}` in a template string
TemplateString(value) == IF value = Undefined THEN "undefined" ELSE value.v

\* parseErrors that has no case for the code 2201X
parseErrorsWithoutOffset(errorMapping, error) ==
    LET Keyed(key) ==
            LET Mapped(messageOrFunction) ==
                    IF messageOrFunction = Undefined THEN [threw |-> TRUE, error |-> error]
                    ELSE [threw |-> FALSE, value |-> Err(messageOrFunction)]
            IN Mapped(Get(errorMapping, key))
    IN IF error.routine = Str("range_serialize") THEN Keyed("range")
       ELSE IF ~Truthy(error.code) THEN [threw |-> TRUE, error |-> error]
       ELSE IF error.code = SqlState("23", "502")
            THEN Keyed(TemplateString(error.table) \o "_" \o TemplateString(error.column) \o "_null")
       ELSE IF ~StartsWith23(error.code) THEN [threw |-> TRUE, error |-> error]
       ELSE Keyed(TemplateString(error.constraint))

\* parseErrors(errorMapping, error): the Result returned, or the error thrown
parseErrors(errorMapping, error) ==
    LET Keyed(key) ==
            LET Mapped(messageOrFunction) ==
                    IF messageOrFunction = Undefined THEN [threw |-> TRUE, error |-> error]
                    ELSE [threw |-> FALSE, value |-> Err(messageOrFunction)]
            IN Mapped(Get(errorMapping, key))
    IN IF error.routine = Str("range_serialize") THEN Keyed("range")
       ELSE IF ~Truthy(error.code) THEN [threw |-> TRUE, error |-> error]
       ELSE IF error.code = SqlState("23", "502")
            THEN Keyed(TemplateString(error.table) \o "_" \o TemplateString(error.column) \o "_null")
       ELSE IF error.code = SqlState("22", "01X") THEN Keyed("offset")
       ELSE IF ~StartsWith23(error.code) THEN [threw |-> TRUE, error |-> error]
       ELSE Keyed(TemplateString(error.constraint))

\* DBResultPromise.parseErrors(errorMapping) of a settled promise
DBResultPromiseParseErrors(promise, errorMapping) ==
    IF promise.state = "fulfilled" THEN [threw |-> FALSE, value |-> Ok(promise.value)]
    ELSE parseErrors(errorMapping, promise.value)

\* rows a query resolves to
ResultRows == {<< >>, <<Row15>>, <<Row15, Row16>>}

\* errors a query rejects with: those of the database and errors without a code
DBErrors ==
    [ routine : {Undefined, Str("range_serialize"), Str("ExecConstraints")},
      code : {Undefined, Str(""), SqlState("23", "502"), SqlState("22", "01X"),
              SqlState("23", "505"), SqlState("22", "000"), SqlState("42", "601")},
      table : {Undefined, Str("country")},
      column : {Undefined, Str("name")},
      constraint : {Undefined, Str("country_name_key")} ]

\* error mappings handed to parseErrors
ErrorMappings ==
    { Obj(<< >>),
      Obj(<< <<"range", Str("Invalid range")>>, <<"offset", Str("Invalid offset")>> >>),
      Obj(<< <<"country_name_null", Str("Name is required")>>,
             <<"country_name_key", Str("Name is taken")>> >>),
      Obj(<< <<"range", Str("")>>, <<"country_name_key", Num("0")>>, <<"offset", Null>> >>),
      Obj(<< <<"range", Str("Invalid range")>>, <<"offset", Str("Invalid offset")>>,
             <<"country_name_null", Str("Name is required")>>,
             <<"country_name_key", Str("Name is taken")>> >>) }

InitParseErrors ==
    /\ builder = [class |-> "DBResultPromise", state |-> "pending"]
    /\ definitions = << >>
    /\ sent = << >>
    /\ db = EmptyDatabase
    /\ call = NoCall
    /\ history = [calls |-> 0]

\* the query succeeds
QueryFulfils ==
    /\ builder.state = "pending"
    /\ \E rows \in ResultRows :
          builder' = [class |-> "DBResultPromise", state |-> "fulfilled", value |-> rows]
    /\ UNCHANGED <<definitions, sent, db, call, history>>

\* the query fails
QueryRejects ==
    /\ builder.state = "pending"
    /\ \E error \in DBErrors :
          builder' = [class |-> "DBResultPromise", state |-> "rejected", value |-> error]
    /\ UNCHANGED <<definitions, sent, db, call, history>>

ParseErrorsCall ==
    /\ builder.state # "pending"
    /\ history.calls = 0
    /\ \E errorMapping \in ErrorMappings :
          call' = [name |-> "parseErrors", errorMapping |-> errorMapping,
                   settled |-> DBResultPromiseParseErrors(builder, errorMapping)]
    /\ history' = [calls |-> 1]
    /\ UNCHANGED <<builder, definitions, sent, db>>

NextParseErrors ==
    \/ QueryFulfils
    \/ QueryRejects
    \/ ParseErrorsCall

SpecParseErrors == InitParseErrors /\ [][NextParseErrors]_vars

----------------------------------------------------------------------------
(* Executor (executor.ts): transaction, executeString, release *)

\* In this specification builder is the Executor, db is the pg client behind
\* it (the tasks whose query it has not answered yet, in the order received,
\* and the number of client.release calls), sent is the list of client.query
\* calls, call holds one record per asynchronous call in progress and history
\* is the last direct call made on the Executor.

\* calls of Executor.release
MaxReleases == 2

\* the asynchronous calls running concurrently
Tasks == {"first", "second"}

\* the caller of a direct call
Direct == "direct"

\* new Error(this.closedError)
ClosedError == [message |-> "This Executor has been released"]

\* the rejection of client.query: error.query = query
QueryError(text) == [message |-> "query failed", query |-> text]

\* the error a callback rejects with or throws
FnError == [message |-> "fn failed"]

\* the callbacks handed to transaction and to Pool.run: the statements it
\* awaits one after the other and how it ends; a callback that throws does so
\* before it returns a promise
FnBehaviours ==
    {f \in [statements : {0, 1}, ending : {"resolve", "reject", "throw"}] :
        f.ending = "throw" => f.statements = 0}

IdleTask == [pc |-> "idle"]

Rejected(error) == [ok |-> FALSE, error |-> error]

Resolved(value) == [ok |-> TRUE, value |-> value]

\* what one synchronous stretch of a call does: the queries it hands to the
\* client and the call's record when it stops at its next await
Stretch(queries, task) == [queries |-> queries, task |-> task]

\* the promise the call returned settles; Pool's finally callback is still to run
Finished(task, outcome) ==
    [task EXCEPT !.pc = IF task.kind = "transaction" THEN "done" ELSE "finally",
                 !.settled = outcome]

\* executeString that does not look at this.closed
executeStringWhenClosed(closed, query) == [threw |-> FALSE, queries |-> <<query>>]

\* executeString(query): throws when the Executor is closed, else hands the
\* query to the client
executeString(closed, query) ==
    IF closed THEN [threw |-> TRUE, error |-> ClosedError, queries |-> << >>]
    ELSE [threw |-> FALSE, queries |-> <<query>>]

\* catch (err) { await this.rollback(); throw err }
Catch(task, err, closed) ==
    LET After(rollback) ==
            IF rollback.threw THEN Stretch(<< >>, Finished(task, Rejected(rollback.error)))
            ELSE Stretch(rollback.queries, [task EXCEPT !.pc = "rollback", !.err = err])
    IN After(executeString(closed, "ROLLBACK"))

\* await this.commit()
Commit(task, closed) ==
    LET After(commit) ==
            IF commit.threw THEN Catch(task, commit.error, closed)
            ELSE Stretch(commit.queries, [task EXCEPT !.pc = "commit"])
    IN After(executeString(closed, "COMMIT"))

\* fn's promise settles: with the outcome of its ending once its statements are done
FnEnds(task) ==
    IF task.fn.ending = "resolve" THEN Resolved("result") ELSE Rejected(FnError)

\* fn sends its next statement and awaits it, or settles
FnStep(task, closed) ==
    IF task.left = 0 THEN Stretch(<< >>, [task EXCEPT !.pc = "fnSettled", !.fnOutcome = FnEnds(task)])
    ELSE LET After(statement) ==
                 IF statement.threw
                 THEN Stretch(<< >>, [task EXCEPT !.pc = "fnSettled",
                                                  !.fnOutcome = Rejected(statement.error)])
                 ELSE Stretch(statement.queries, [task EXCEPT !.pc = "fn", !.left = @ - 1])
         IN After(executeString(closed, "STATEMENT"))

\* const result = await fn(this), inside the try block of transaction
CallFn(task, closed) ==
    IF task.fn.ending = "throw" THEN Catch([task EXCEPT !.fnRan = TRUE], FnError, closed)
    ELSE FnStep([task EXCEPT !.fnRan = TRUE], closed)

\* transaction(fn) up to its first await
transaction(task, closed) ==
    LET After(begin) ==
            IF begin.threw THEN Catch(task, begin.error, closed)
            ELSE Stretch(begin.queries, [task EXCEPT !.pc = "begin"])
    IN After(executeString(closed, "BEGIN"))

\* fn(database).finally(...) of Pool.run: nothing is chained when fn throws
PoolRun(task, closed) ==
    IF task.fn.ending = "throw"
    THEN Stretch(<< >>, [task EXCEPT !.fnRan = TRUE, !.pc = "done", !.settled = Rejected(FnError)])
    ELSE FnStep([task EXCEPT !.fnRan = TRUE], closed)

\* the call resumes after `await fn(this)`, or Pool.run's finally is reached
AfterFn(task, closed) ==
    IF task.kind = "run" THEN Stretch(<< >>, Finished(task, task.fnOutcome))
    ELSE IF task.fnOutcome.ok THEN Commit([task EXCEPT !.result = task.fnOutcome.value], closed)
    ELSE Catch(task, task.fnOutcome.error, closed)

NewTask(kind, fn) ==
    [kind |-> kind, fn |-> fn, pc |-> "called", left |-> fn.statements, fnRan |-> FALSE,
     fnOutcome |-> Resolved(Undefined), result |-> Undefined, err |-> Undefined,
     settled |-> Resolved(Undefined)]

\* release(): closes the Executor and releases the client, once
release(executor, client) ==
    IF executor.closed THEN [executor |-> executor, client |-> client]
    ELSE [executor |-> [executor EXCEPT !.closed = TRUE],
          client |-> [client EXCEPT !.releases = @ + 1]]

InitExecutor ==
    /\ builder = [class |-> "Executor", closed |-> FALSE]
    /\ definitions = << >>
    /\ sent = << >>
    /\ db = [pending |-> << >>, releases |-> 0]
    /\ call = [t \in Tasks |-> IdleTask]
    /\ history = [releaseCalls |-> 0, last |-> [name |-> "none"]]

Query(text, by) == [text |-> text, by |-> by]

\* the stretch's queries reach the client; answered tells that the stretch
\* began with the client's answer to the task's query
Ran(t, answered, stretch) ==
    /\ call' = [call EXCEPT ![t] = stretch.task]
    /\ sent' = sent \o [i \in 1..Len(stretch.queries) |-> Query(stretch.queries[i], t)]
    /\ db' = [db EXCEPT !.pending = (IF answered THEN Tail(@) ELSE @)
                                        \o [i \in 1..Len(stretch.queries) |-> t]]

\* the client answers its oldest query, the one task t awaits at pc
Answers(t, pc) == call[t].pc = pc /\ db.pending # << >> /\ Head(db.pending) = t

\* executor.transaction(fn) is called
TransactionCall(t) ==
    /\ call[t].pc = "idle"
    /\ t = "second" => call["first"].pc # "idle"
    /\ \E fn \in FnBehaviours :
          Ran(t, FALSE, transaction(NewTask("transaction", fn), builder.closed))
    /\ UNCHANGED <<builder, definitions, history>>

\* BEGIN succeeds or fails
BeginAnswered(t) ==
    /\ Answers(t, "begin")
    /\ \E ok \in BOOLEAN :
          Ran(t, TRUE, IF ok THEN CallFn(call[t], builder.closed)
                       ELSE Catch(call[t], QueryError("BEGIN"), builder.closed))
    /\ UNCHANGED <<builder, definitions, history>>

\* a statement of fn succeeds or fails
StatementAnswered(t) ==
    /\ Answers(t, "fn")
    /\ \E ok \in BOOLEAN :
          Ran(t, TRUE, IF ok THEN FnStep(call[t], builder.closed)
                       ELSE Stretch(<< >>, [call[t] EXCEPT !.pc = "fnSettled",
                                               !.fnOutcome = Rejected(QueryError("STATEMENT"))]))
    /\ UNCHANGED <<builder, definitions, history>>

\* fn's promise has settled and the call that awaits it resumes
FnSettled(t) ==
    /\ call[t].pc = "fnSettled"
    /\ Ran(t, FALSE, AfterFn(call[t], builder.closed))
    /\ UNCHANGED <<builder, definitions, history>>

\* COMMIT succeeds or fails
CommitAnswered(t) ==
    /\ Answers(t, "commit")
    /\ \E ok \in BOOLEAN :
          Ran(t, TRUE, IF ok THEN Stretch(<< >>, Finished(call[t], Resolved(call[t].result)))
                       ELSE Catch(call[t], QueryError("COMMIT"), builder.closed))
    /\ UNCHANGED <<builder, definitions, history>>

\* ROLLBACK succeeds, and err is thrown, or fails
RollbackAnswered(t) ==
    /\ Answers(t, "rollback")
    /\ \E ok \in BOOLEAN :
          Ran(t, TRUE, Stretch(<< >>, Finished(call[t],
                           IF ok THEN Rejected(call[t].err) ELSE Rejected(QueryError("ROLLBACK")))))
    /\ UNCHANGED <<builder, definitions, history>>

\* the methods that reach executeString and the query each sends
DirectMethods ==
    { [name |-> "execute", query |-> "QUERY"], [name |-> "executeString", query |-> "STATEMENT"],
      [name |-> "begin", query |-> "BEGIN"], [name |-> "commit", query |-> "COMMIT"],
      [name |-> "rollback", query |-> "ROLLBACK"] }

\* execute, executeString, begin, commit or rollback is called on the Executor
DirectCall ==
    /\ history.last.name \in {"none", "release"}
    /\ \E m \in DirectMethods :
          LET After(done) ==
                  /\ sent' = sent \o [i \in 1..Len(done.queries) |-> Query(done.queries[i], Direct)]
                  /\ db' = [db EXCEPT !.pending = @ \o [i \in 1..Len(done.queries) |-> Direct]]
                  /\ history' = [history EXCEPT !.last = [name |-> m.name, threw |-> done.threw]]
          IN After(executeString(builder.closed, m.query))
    /\ UNCHANGED <<builder, definitions, call>>

\* the client answers a direct call's query
DirectAnswered ==
    /\ db.pending # << >> /\ Head(db.pending) = Direct
    /\ db' = [db EXCEPT !.pending = Tail(@)]
    /\ UNCHANGED <<builder, definitions, sent, call, history>>

\* executor.release() is called
ReleaseCall ==
    /\ history.releaseCalls < MaxReleases
    /\ LET After(done) == builder' = done.executor /\ db' = done.client
       IN After(release(builder, db))
    /\ history' = [history EXCEPT !.releaseCalls = @ + 1,
                                 !.last = IF @.name = "none" THEN [name |-> "release"] ELSE @]
    /\ UNCHANGED <<definitions, sent, call>>

NextExecutor ==
    \/ \E t \in Tasks :
          \/ TransactionCall(t)
          \/ BeginAnswered(t)
          \/ StatementAnswered(t)
          \/ FnSettled(t)
          \/ CommitAnswered(t)
          \/ RollbackAnswered(t)
    \/ DirectCall
    \/ DirectAnswered
    \/ ReleaseCall

SpecExecutor == InitExecutor /\ [][NextExecutor]_vars

----------------------------------------------------------------------------
(* Pool.run and Pool.runInTransaction (pool.ts) *)

\* One call on the Pool: builder is the Executor that connect() made for it
\* and the call is task PoolTask.

PoolTask == "first"

\* pool.run(fn) is called and the Executor is connected
PoolRunCall ==
    /\ call[PoolTask].pc = "idle"
    /\ \E fn \in FnBehaviours :
          Ran(PoolTask, FALSE, PoolRun(NewTask("run", fn), builder.closed))
    /\ UNCHANGED <<builder, definitions, history>>

\* pool.runInTransaction(fn) is called and the Executor is connected
PoolRunInTransactionCall ==
    /\ call[PoolTask].pc = "idle"
    /\ \E fn \in FnBehaviours :
          Ran(PoolTask, FALSE, transaction(NewTask("runInTransaction", fn), builder.closed))
    /\ UNCHANGED <<builder, definitions, history>>

\* .finally(() => database.release())
PoolFinally ==
    /\ call[PoolTask].pc = "finally"
    /\ LET After(done) == builder' = done.executor /\ db' = done.client
       IN After(release(builder, db))
    /\ call' = [call EXCEPT ![PoolTask].pc = "done"]
    /\ history' = [history EXCEPT !.last = [name |-> "finally"]]
    /\ UNCHANGED <<definitions, sent>>

NextPool ==
    \/ PoolRunCall
    \/ PoolRunInTransactionCall
    \/ BeginAnswered(PoolTask)
    \/ StatementAnswered(PoolTask)
    \/ FnSettled(PoolTask)
    \/ CommitAnswered(PoolTask)
    \/ RollbackAnswered(PoolTask)
    \/ PoolFinally
    \/ ReleaseCall

SpecPool == InitExecutor /\ [][NextPool]_vars

----------------------------------------------------------------------------
(* getDatabaseType on sample values *)

\* the values a field is given
SampleValues ==
    { Num("0"), Num("15"), Num("1.5"), Str(""), Str("Europe"), Bool("true"), Bool("false"),
      DateV("2019-01-01"), Obj(<< >>), Obj(<< <<"a", Num("1")>> >>), Arr(<< >>),
      Arr(<<Num("1"), Num("2")>>), Null, Undefined }

TypedDefinitions == {countryDefinition, locationDefinition, userDefinition}

InitTypes ==
    /\ builder = NoBuilder
    /\ definitions = << >>
    /\ sent = << >>
    /\ db = EmptyDatabase
    /\ call = NoCall
    /\ history = [calls |-> 0]

\* getDatabaseType(definition, field, value); threw stands for the Error of
\* inferDatabaseType
GetDatabaseTypeCall ==
    /\ \E definition \in TypedDefinitions :
          \E field \in DOMAIN definition.fields, value \in SampleValues :
              LET Return(type) ==
                      call' = [name |-> "getDatabaseType", definition |-> definition,
                               field |-> field, value |-> value,
                               threw |-> type = "", type |-> type]
              IN Return(getDatabaseType(definition, field, value))
    /\ history' = [calls |-> 1]
    /\ UNCHANGED <<builder, definitions, sent, db>>

NextTypes == GetDatabaseTypeCall

SpecTypes == InitTypes /\ [][NextTypes]_vars

----------------------------------------------------------------------------
(* One Select configured by chained calls in any order *)

\* history holds the names of the calls made (a join by its alias, in the
\* order of registration) and the number of execute calls.

GroupByKeys == {Arr(<<Str("id")>>), Arr(<<Str("name"), Str("locationId")>>)}

OrderByKeys == {Arr(<<Str("name")>>), Arr(<<Str("isDeleted"), Str("locationId")>>)}

Orders == {Str("ASC"), Str("DESC")}

InitClauses ==
    /\ builder = SelectNew(countryDefinition, getFieldList(countryDefinition, Undefined))
    /\ definitions = << <<"root", countryDefinition>> >>
    /\ sent = << >>
    /\ db = EmptyDatabase
    /\ call = NoCall
    /\ history = [called |-> {}, joined |-> << >>, executes |-> 0]

\* the call was not made yet, and execute neither
Uncalled(name) == name \notin history.called /\ history.executes = 0

ClauseCalled(name) == [history EXCEPT !.called = @ \cup {name}]

ClauseWhere ==
    /\ Uncalled("where")
    /\ \E c \in PairWhereCalls :
          LET Returned(after) ==
                  IF after.threw THEN UNCHANGED builder
                  ELSE builder' = [builder EXCEPT !.query = after.query]
          IN Returned(SelectWhere(builder.query, definitions, c.whereObject, c.operator))
    /\ call' = [name |-> "where"]
    /\ history' = ClauseCalled("where")
    /\ UNCHANGED <<definitions, sent, db>>

ClauseJoin ==
    /\ \E c \in PairJoinCalls :
          /\ Uncalled(c.alias)
          /\ LET Returned(after) ==
                     IF after.threw
                     THEN /\ history' = ClauseCalled(c.alias)
                          /\ UNCHANGED <<builder, definitions>>
                     ELSE /\ history' = [history EXCEPT !.called = @ \cup {c.alias},
                                                        !.joined = Append(@, c.alias)]
                          /\ builder' = [builder EXCEPT !.query = after.query]
                          /\ definitions' = after.definitions
             IN Returned(SelectJoin(builder.query, definitions, c.type, c.entity, c.alias, c.on,
                                    c.fields, c.onOperator))
    /\ call' = [name |-> "join"]
    /\ UNCHANGED <<sent, db>>

ClauseGroupBy ==
    /\ Uncalled("groupBy")
    /\ \E keys \in GroupByKeys :
          builder' = [builder EXCEPT !.query = SelectGroupBy(builder.query, keys)]
    /\ call' = [name |-> "groupBy"]
    /\ history' = ClauseCalled("groupBy")
    /\ UNCHANGED <<definitions, sent, db>>

ClauseOrderBy ==
    /\ Uncalled("orderBy")
    /\ \E keys \in OrderByKeys :
          builder' = [builder EXCEPT !.query = SelectOrderBy(builder.query, keys)]
    /\ call' = [name |-> "orderBy"]
    /\ history' = ClauseCalled("orderBy")
    /\ UNCHANGED <<definitions, sent, db>>

\* asc() or desc()
ClauseOrder ==
    /\ Uncalled("order")
    /\ \E order \in Orders :
          builder' = [builder EXCEPT !.query = SelectOrder(builder.query, order)]
    /\ call' = [name |-> "order"]
    /\ history' = ClauseCalled("order")
    /\ UNCHANGED <<definitions, sent, db>>

ClauseLimit ==
    /\ Uncalled("limit")
    /\ \E limit \in LimitValues :
          builder' = [builder EXCEPT !.query.limit = limit]
    /\ call' = [name |-> "limit"]
    /\ history' = ClauseCalled("limit")
    /\ UNCHANGED <<definitions, sent, db>>

ClauseOffset ==
    /\ Uncalled("offset")
    /\ \E offset \in OffsetValues :
          builder' = [builder EXCEPT !.query.offset = offset]
    /\ call' = [name |-> "offset"]
    /\ history' = ClauseCalled("offset")
    /\ UNCHANGED <<definitions, sent, db>>

ClauseExecute ==
    /\ history.executes = 0
    /\ LET Send(done) ==
               /\ sent' = Append(sent, [text |-> done.text, args |-> done.args])
               /\ builder' = [builder EXCEPT !.query = done.query]
       IN Send(SelectExecute(builder.query, definitions))
    /\ call' = [name |-> "execute"]
    /\ history' = [history EXCEPT !.executes = 1]
    /\ UNCHANGED <<definitions, db>>

NextClauses ==
    \/ ClauseWhere
    \/ ClauseJoin
    \/ ClauseGroupBy
    \/ ClauseOrderBy
    \/ ClauseOrder
    \/ ClauseLimit
    \/ ClauseOffset
    \/ ClauseExecute

SpecClauses == InitClauses /\ [][NextClauses]_vars

----------------------------------------------------------------------------
(* Properties of the statements handed to the executor *)

\* the values a WhereObject or ON object may hold as scalars
IsScalar(value) == value.t \in {"number", "string", "boolean", "date"}

\* the numbers 1..k, each once
IsPermutationOfOneTo(numbers, k) ==
    /\ Len(numbers) = k
    /\ \A n \in 1..k : \E i \in 1..Len(numbers) : numbers[i] = n

\* C1: in the statement a builder hands to the executor on its first execute
\* the placeholders are exactly $1..$k, each appearing once, k being the
\* length of the argument list (the numbering half of the claim: the
\* argument under a number can only be the right one when this holds).
C1_PlaceholdersMatchArguments ==
    Len(sent) >= 1 =>
        IsPermutationOfOneTo(Placeholders(sent[1].text), Len(sent[1].args))

\* the argument a key of a flat filter contributes
FilterArgument(value) == IF isComparison(value) THEN value.value ELSE value

\* a WhereObject of the shape C2 speaks of: every key a field of the definition
\* holding a scalar, an array or a Comparison of a value, none null
IsFlatFilter(definition, whereObject) ==
    /\ whereObject.t = "object"
    /\ \A i \in 1..Len(whereObject.entries) :
          LET value == whereObject.entries[i][2]
          IN /\ HasField(definition, whereObject.entries[i][1])
             /\ \/ IsScalar(value)
                \/ isArray(value)
                \/ isComparison(value) /\ ~LooseNull(value.value)

\* C2: find with paramCountStart s on a WhereObject of N keys, none null,
\* returns parameterCount s+N and N arguments in key order, and the predicate
\* of the i-th key uses the placeholder $(s+i).
C2_FlatFilterNumbering ==
    (call.name = "find" /\ IsFlatFilter(call.definition, call.whereObject)) =>
        LET entries == call.whereObject.entries
            N == Len(entries)
            result == call.result
        IN /\ ~result.threw
           /\ result.parameterCount = call.paramCountStart + N
           /\ result.whereParams = [i \in 1..N |-> FilterArgument(entries[i][2])]
           /\ Placeholders(result.whereClause) = [i \in 1..N |-> call.paramCountStart + i]

\* a WhereObject without a nested mapping, its keys fields of the root definition
IsRootFilter(root, whereObject) ==
    /\ whereObject.t = "object"
    /\ \A i \in 1..Len(whereObject.entries) :
          /\ HasField(root, whereObject.entries[i][1])
          /\ whereObject.entries[i][2].t # "object"

\* C3: findWithNesting compiles every key whose value is not a nested mapping
\* against the root definition, as find does on the root; when every value is
\* a scalar the i-th key gives `<table>.<column> = $(s+i)::<type>`, the
\* scalars are the arguments and the counter is advanced by their number.
C3_ScalarsResolveAgainstRoot ==
    (call.name = "findWithNesting" /\ IsRootFilter(Lookup(call.definitions, "root"), call.whereObject)) =>
        LET root == Lookup(call.definitions, "root")
            entries == call.whereObject.entries
            N == Len(entries)
            result == call.result
        IN /\ result = find(root, call.whereObject, call.paramCountStart, call.operator, "")
           /\ (\A i \in 1..N : IsScalar(entries[i][2])) =>
                 /\ ~result.threw
                 /\ result.whereClause =
                        JoinParts([i \in 1..N |->
                                      <<Predicate(getDatabaseName(root, entries[i][1], TRUE), "=",
                                                  call.paramCountStart + i,
                                                  getDatabaseType(root, entries[i][1], entries[i][2]))>>],
                                  call.operator)
                 /\ result.whereParams = [i \in 1..N |-> entries[i][2]]
                 /\ result.parameterCount = call.paramCountStart + N

\* the positions of a text whose piece is of one of the kinds
PositionsOf(text, kinds) == {i \in 1..Len(text) : text[i].kind \in kinds}

\* a WhereObject of the shape C4 speaks of: fields of the definition holding
\* scalars, arrays, Comparisons or null
IsUpdateFilter(definition, whereObject) ==
    /\ whereObject.t = "object"
    /\ \A i \in 1..Len(whereObject.entries) :
          /\ HasField(definition, whereObject.entries[i][1])
          /\ whereObject.entries[i][2].t # "object"

\* C4: an Update of k fields followed by one where(): SET uses $1..$k in
\* declaration order, every WHERE placeholder is greater than k, no number is
\* used twice, and the arguments are the k SET values followed by one
\* argument per WHERE placeholder.
C4_UpdateWhereNumberedAfterSet ==
    ( /\ builder.class = "Update"
      /\ Len(sent) >= 1
      /\ history.calls = 1
      /\ history.run = 1
      /\ IsUpdateFilter(builder.definition, history.last.whereObject) ) =>
        LET text == sent[1].text
            args == sent[1].args
            k == Len(builder.query.updateParams)
            setAt == PositionsOf(text, {"set"})
            whereAt == PositionsOf(text, {"predicate"})
        IN /\ Placeholders(SelectSeq(text, LAMBDA piece : piece.kind = "set")) = [i \in 1..k |-> i]
           /\ \A w \in whereAt : text[w].ph > k
           /\ \A v, w \in setAt \cup whereAt : v # w => text[v].ph # text[w].ph
           /\ Len(args) = k + Cardinality(whereAt)
           /\ SubSeq(args, 1, k) = builder.query.updateParams

\* the stored rows whose primary key is key
RowsWithKey(database, key) == SelectSeq(database.rows, LAMBDA row : row.id = key)

\* C5: Entity.get(db, key) executes a SELECT holding the one predicate
\* primaryKey = key (one placeholder, arguments [key]) and yields the row
\* stored under key, Nothing when there is none; Entity.exists(db, key) is
\* true exactly when such a row is stored.
C5_GetSelectsByPrimaryKey ==
    (call.name \in {"get", "exists"}) =>
        LET stored == RowsWithKey(db, call.key)
        IN /\ ~call.threw
           /\ Len(sent) = 1
           /\ Placeholders(sent[1].text) = <<1>>
           /\ sent[1].args = <<call.key>>
           /\ call.name = "get" => call.result = first(stored)
           /\ call.name = "exists" => call.result = (Len(stored) > 0)

\* the ON placeholders of a text in text order, the LIMIT and OFFSET ones
OnPlaceholders(text) == Placeholders(SelectSeq(text, LAMBDA piece : piece.kind = "onvalue"))
WherePlaceholders(text) == Placeholders(SelectSeq(text, LAMBDA piece : piece.kind = "predicate"))
LastPlaceholders(text) == Placeholders(SelectSeq(text, LAMBDA piece : piece.kind \in {"limit", "offset"}))

IsIncreasing(numbers) == \A i, j \in 1..Len(numbers) : i < j => numbers[i] < numbers[j]

AllBelow(lower, upper) ==
    \A i \in 1..Len(lower), j \in 1..Len(upper) : lower[i] < upper[j]

\* the ON placeholders of the joins of a text registered after the first `joined` ones
OnPlaceholdersAfter(text, joined) ==
    LET NthJoin(i) == Cardinality({j \in 1..i : text[j].kind = "join"})
        late == {i \in 1..Len(text) : text[i].kind = "onvalue" /\ NthJoin(i) > joined}
    IN Placeholders(SelectSeq([i \in 1..Len(text) |-> IF i \in late THEN text[i] ELSE [kind |-> "skipped"]],
                              LAMBDA piece : piece.kind = "onvalue"))

Statement(b, defs) ==
    LET done == CASE b.class = "Select" -> SelectExecute(b.query, defs)
                  [] b.class = "Update" -> UpdateExecute(b.query, b.definition)
                  [] b.class = "Delete" -> DeleteExecute(b.query, b.definition)
    IN [text |-> done.text, args |-> done.args]

\* the builder after where(whereCall)
AfterWhere(b, defs, whereCall) ==
    LET after == IF b.class = "Select"
                 THEN SelectWhere(b.query, defs, whereCall.whereObject, whereCall.operator)
                 ELSE FlatWhere(b.query, b.definition, whereCall.whereObject)
    IN [b EXCEPT !.query = after.query]

\* C7: after where(w1) followed by where(w2) the statement a Select, Update
\* or Delete hands to the executor is the one of the same builder on which
\* only where(w2) was called.
C7_LastWhereAlone ==
    (history.run >= 2 /\ history.executes = 1 /\ call.name = "execute") =>
        sent[1] = Statement(AfterWhere(history.base, definitions, history.last), definitions)

\* an ON object of the shape C8 speaks of: fields of the joined table bound to
\* scalar literals, dates or null
IsLiteralOn(joinedTableDefinition, on) ==
    /\ on.t = "object"
    /\ \A i \in 1..Len(on.entries) :
          /\ HasField(joinedTableDefinition, on.entries[i][1])
          /\ IsScalar(on.entries[i][2]) \/ on.entries[i][2] = Null

\* C8: the join resolver gives for every ON key bound to a scalar literal (0,
\* false and '' included) or a date `"<alias>".<col> = $n`, n the next counter
\* value, appends the literal to joinParams and advances the counter by one;
\* only null gives IS NULL.
C8_LiteralJoinBindsParameter ==
    (call.name = "join" /\ IsLiteralOn(call.joinedTableDefinition, call.on)) =>
        LET entries == call.on.entries
            bound == {i \in 1..Len(entries) : entries[i][2] # Null}
            Column(i) == "\"" \o call.alias \o "\"."
                         \o getDatabaseName(call.joinedTableDefinition, entries[i][1], FALSE)
            Number(i) == call.paramCountStart + Cardinality({j \in bound : j <= i})
            result == call.result
        IN /\ ~result.threw
           /\ SubSeq(result.joinClause, 2, Len(result.joinClause) - 1) =
                  JoinParts([i \in 1..Len(entries) |->
                                IF i \in bound THEN <<OnValuePiece(Column(i), Number(i))>>
                                ELSE <<IsNullPiece(Column(i))>>],
                            call.onOperator)
           /\ result.joinParams =
                  LET values == [i \in 1..Len(entries) |-> entries[i][2]]
                  IN SelectSeq(values, LAMBDA value : value # Null)
           /\ result.parameterCount = call.paramCountStart + Cardinality(bound)

\* the fields absent from the first row of a bulk input that a later row supplies
LateFields(definition, newEntities) ==
    { field \in DOMAIN definition.fields :
        /\ Get(newEntities.elems[1], field) = Undefined
        /\ \E r \in 2..Len(newEntities.elems) : Get(newEntities.elems[r], field) # Undefined }

\* C9: createBulk of rows in which a field (one without a database default)
\* is absent from the first row but present on later rows returns and stores
\* each row with its own value of the field: null for the rows that have
\* none, the supplied value for the others.
C9_LaterRowsKeepTheirValue ==
    (call.name = "createBulk" /\ call.ok /\ Len(call.newEntities.elems) >= 2) =>
        \A field \in LateFields(countryDefinition, call.newEntities) :
            ~countryDefinition.fields[field].hasDBDefault =>
                \A r \in 1..Len(call.newEntities.elems) :
                    LET supplied == Get(call.newEntities.elems[r], field)
                        kept == IF supplied = Undefined THEN Null ELSE supplied
                    IN /\ call.result[r][field] = kept
                       /\ db.rows[Len(db.rows) - Len(call.result) + r][field] = kept

\* the quoted column names of the fields the first row of a bulk input defines
FirstRowColumns(definition, newEntities) ==
    LET present == SelectSeq(definition.fieldNames,
                             LAMBDA field : Get(newEntities.elems[1], field) # Undefined)
    IN [i \in 1..Len(present) |-> "\"" \o getDatabaseName(definition, present[i], FALSE) \o "\""]

BothLimitAndOffsetExecuted ==
    /\ builder.class = "Select"
    /\ call.name = "execute"
    /\ history.executes = 1
    /\ builder.query.limit # Undefined
    /\ builder.query.offset # Undefined

\* C11: when limit(l) and offset(o) were both called on a Select, its first
\* execute emits `LIMIT $(p+1) OFFSET $(p+2)` at the end of the text, p being
\* the number of where/join arguments, and the arguments are those p
\* followed by l and o.
C11_LimitThenOffsetAfterAllArguments ==
    BothLimitAndOffsetExecuted =>
        LET text == sent[1].text
            p == Len(builder.query.params)
        IN /\ Len(text) >= 2
           /\ SubSeq(text, Len(text) - 1, Len(text)) = <<LimitPiece(p + 1), OffsetPiece(p + 2)>>
           /\ sent[1].args = builder.query.params \o <<builder.query.limit, builder.query.offset>>

\* C12: after limit(n) the first executed statement of a Select holds a LIMIT
\* placeholder whose argument is n, for every n >= 0, 0 included; after
\* offset(n) it holds an OFFSET placeholder whose argument is n.
C12_LimitAndOffsetAlwaysBound ==
    (builder.class = "Select" /\ call.name = "execute" /\ history.executes = 1) =>
        LET text == sent[1].text
            args == sent[1].args
            Bound(kind, n) ==
                \E i \in 1..Len(text) :
                    /\ text[i].kind = kind
                    /\ text[i].ph \in 1..Len(args)
                    /\ args[text[i].ph] = n
        IN /\ builder.query.limit # Undefined => Bound("limit", builder.query.limit)
           /\ builder.query.offset # Undefined => Bound("offset", builder.query.offset)

\* the join clause of join(entity, alias, {f: ref(g)}, fields) over the root definition
RefJoinClause(joinClause, defs, joinedTableDefinition, alias, f, g) ==
    /\ Len(joinClause) = 3
    /\ joinClause[1].kind = "join"
    /\ joinClause[1].table = joinedTableDefinition.tableName
    /\ joinClause[1].alias = alias
    /\ joinClause[2] = OnColumnPiece("\"" \o alias \o "\"." \o getDatabaseName(joinedTableDefinition, f, FALSE),
                                     getDatabaseName(Lookup(defs, "root"), g, TRUE))
    /\ joinClause[3] = EndJoinPiece

\* the alias was joined on a single reference to a root field
JoinedOnRef(query, defs, alias) ==
    \E j \in 1..Len(query.joinClauses) :
        \E f \in DOMAIN Lookup(defs, alias).fields, g \in DOMAIN Lookup(defs, "root").fields :
            RefJoinClause(query.joinClauses[j], defs, Lookup(defs, alias), alias, f, g)

\* a value that binds an argument: everything but null
BindsArgument(value) == value # Null

\* the entries of a sub-filter that bind an argument
BindingEntries(sub) == SelectSeq(sub.entries, LAMBDA e : BindsArgument(e[2]))

\* where({A: sub}) on a Select that joined A on a reference
IsAliasFilter ==
    /\ call.name = "findWithNesting"
    /\ builder.class = "Select"
    /\ Len(call.whereObject.entries) = 1
    /\ call.whereObject.entries[1][2].t = "object"
    /\ call.whereObject.entries[1][2].entries # << >>
    /\ call.whereObject.entries[1][1] # "root"
    /\ IsDefined(Lookup(call.definitions, call.whereObject.entries[1][1]))
    /\ JoinedOnRef(builder.query, call.definitions, call.whereObject.entries[1][1])

\* C13: join(entity, A, {f: ref(g)}, fields) gives the clause
\* `"A".<column of f> = <rootTable>.<column of g>` with no parameter, and a
\* following where({A: sub}) compiles every key of sub to a predicate on
\* `"A".<column>`, numbered from the Select's current counter, the values
\* appended to the arguments.
C13_RefJoinThenAliasFilter ==
    /\ (call.name = "join" /\ Len(call.on.entries) = 1 /\ isRef(call.on.entries[1][2])) =>
           /\ ~call.result.threw
           /\ RefJoinClause(call.result.joinClause, call.definitions, call.joinedTableDefinition,
                            call.alias, call.on.entries[1][1], call.on.entries[1][2].ref)
           /\ call.result.joinParams = << >>
           /\ call.result.parameterCount = call.paramCountStart
    /\ IsAliasFilter =>
           LET alias == call.whereObject.entries[1][1]
               sub == call.whereObject.entries[1][2]
               definition == Lookup(call.definitions, alias)
               binding == BindingEntries(sub)
               result == call.result
               parts == SelectSeq(result.whereClause, LAMBDA piece : piece.kind # "connective")
           IN /\ ~result.threw
              /\ Len(parts) = Len(sub.entries)
              /\ \A i \in 1..Len(parts) :
                     /\ parts[i].kind = IF BindsArgument(sub.entries[i][2]) THEN "predicate" ELSE "isnull"
                     /\ parts[i].column =
                            "\"" \o alias \o "\"." \o getDatabaseName(definition, sub.entries[i][1], FALSE)
              /\ Placeholders(result.whereClause) =
                     [k \in 1..Len(binding) |-> call.paramCountStart + k]
              /\ result.whereParams = [k \in 1..Len(binding) |-> FilterArgument(binding[k][2])]
              /\ result.parameterCount = call.paramCountStart + Len(binding)
              /\ Len(builder.query.params) >= Len(result.whereParams)
              /\ SubSeq(builder.query.params,
                        Len(builder.query.params) - Len(result.whereParams) + 1,
                        Len(builder.query.params)) = result.whereParams

\* an ON value of the shape {otherAlias: field}
IsNestedRefValue(value) ==
    /\ value.t = "object"
    /\ value.entries # << >>
    /\ \A k \in 1..Len(value.entries) : value.entries[k][2].t = "string"

\* the alias was registered by a join()/leftJoin() call
RegisteredByJoin(defs, alias) == alias # "root" /\ IsDefined(Lookup(defs, alias))

\* some nested reference of the ON object names an alias no join registered
RefersToUnregistered(defs, on) ==
    \E i \in 1..Len(on.entries) :
        /\ IsNestedRefValue(on.entries[i][2])
        /\ \E k \in 1..Len(on.entries[i][2].entries) :
               ~RegisteredByJoin(defs, on.entries[i][2].entries[k][1])

\* every key of the ON object is a nested reference to a field of a registered alias
RefersToRegisteredOnly(defs, joinedTableDefinition, on) ==
    /\ on.entries # << >>
    /\ \A i \in 1..Len(on.entries) :
           /\ HasField(joinedTableDefinition, on.entries[i][1])
           /\ IsNestedRefValue(on.entries[i][2])
           /\ \A k \in 1..Len(on.entries[i][2].entries) :
                  /\ RegisteredByJoin(defs, on.entries[i][2].entries[k][1])
                  /\ HasField(Lookup(defs, on.entries[i][2].entries[k][1]),
                              on.entries[i][2].entries[k][2].v)

IsJoinOnValue(value) ==
    \/ value = Null
    \/ IsScalar(value)
    \/ value.t = "ref"
    \/ IsNestedRefValue(value)

\* the pieces of a join clause that state a condition
OnConditions(joinClause) ==
    SelectSeq(joinClause, LAMBDA piece : piece.kind \in {"isnull", "onvalue", "oncolumn"})

\* C15: the join resolver fails for every ON value that is none of null, a
\* scalar or date, a ref(field) or a nested reference {alias: field} (an array
\* or an empty object for example), and a join clause it returns holds a
\* condition for every key of the ON object.
C15_UnresolvableOnValueFails ==
    call.name = "join" =>
        /\ (\E i \in 1..Len(call.on.entries) : ~IsJoinOnValue(call.on.entries[i][2])) =>
               call.result.threw
        /\ ~call.result.threw =>
               Len(OnConditions(call.result.joinClause)) >= Len(call.on.entries)

\* the filter without its null-valued keys
WithoutNulls(whereObject) == Obj(SelectSeq(whereObject.entries, LAMBDA e : e[2] # Null))

\* `<column> IS NULL` for every null-valued key, in key order
NullPieces(definition, whereObject, tableAlias) ==
    LET nulls == SelectSeq(whereObject.entries, LAMBDA e : e[2] = Null)
    IN [k \in 1..Len(nulls) |->
           IsNullPiece(IF tableAlias # ""
                       THEN "\"" \o tableAlias \o "\"." \o getDatabaseName(definition, nulls[k][1], FALSE)
                       ELSE getDatabaseName(definition, nulls[k][1], TRUE))]

\* result is what without gives, plus the IS NULL pieces: same arguments,
\* same counter, same placeholders
NullKeysTransparent(result, without, nullPieces) ==
    ~result.threw =>
        /\ ~without.threw
        /\ result.whereParams = without.whereParams
        /\ result.parameterCount = without.parameterCount
        /\ Placeholders(result.whereClause) = Placeholders(without.whereClause)
        /\ SelectSeq(result.whereClause, LAMBDA piece : piece.kind = "isnull") = nullPieces

\* C16: in flat and alias-aware mode a null-valued key at any position
\* compiles to `<column> IS NULL`, appends no argument and leaves the counter
\* seen by the following keys unchanged: the arguments, the placeholders and
\* the final counter are those of the filter without its null keys.
C16_NullKeyTakesNoPlaceholder ==
    /\ call.name = "find" =>
           NullKeysTransparent(call.result,
                               find(call.definition, WithoutNulls(call.whereObject),
                                    call.paramCountStart, call.operator, ""),
                               NullPieces(call.definition, call.whereObject, ""))
    /\ (call.name = "findWithNesting"
        /\ \A i \in 1..Len(call.whereObject.entries) : call.whereObject.entries[i][2].t # "object") =>
           NullKeysTransparent(call.result,
                               findWithNesting(call.definitions, WithoutNulls(call.whereObject),
                                               call.paramCountStart, call.operator),
                               NullPieces(Lookup(call.definitions, "root"), call.whereObject, ""))
    /\ call.name = "findWithNesting" =>
           \A i \in 1..Len(call.whereObject.entries) :
               (/\ call.whereObject.entries[i][2].t = "object"
                /\ IsDefined(Lookup(call.definitions, call.whereObject.entries[i][1]))) =>
                   NullKeysTransparent(
                       find(Lookup(call.definitions, call.whereObject.entries[i][1]),
                            call.whereObject.entries[i][2], call.paramCountStart, "AND",
                            call.whereObject.entries[i][1]),
                       find(Lookup(call.definitions, call.whereObject.entries[i][1]),
                            WithoutNulls(call.whereObject.entries[i][2]), call.paramCountStart, "AND",
                            call.whereObject.entries[i][1]),
                       NullPieces(Lookup(call.definitions, call.whereObject.entries[i][1]),
                                  call.whereObject.entries[i][2],
                                  call.whereObject.entries[i][1]))

\* a null key between two keys that bind arguments, compiled with the counter
\* already advanced
C16_Witness ==
    /\ call.name \in {"find", "findWithNesting"}
    /\ ~call.result.threw
    /\ call.paramCountStart > 0
    /\ Len(call.whereObject.entries) = 3
    /\ call.whereObject.entries[2][2] = Null
    /\ Placeholders(call.result.whereClause) = <<call.paramCountStart + 1, call.paramCountStart + 2>>
    /\ Len(call.result.whereParams) = 2

\* the filter made of the first i keys
FirstKeys(whereObject, i) == Obj(SubSeq(whereObject.entries, 1, i))

\* after is before with one `= ANY($n::T[])` predicate on the column, one more
\* placeholder and one more argument, the whole array
OneMembershipTest(before, after, column, array, operator) ==
    ~before.threw =>
        /\ ~after.threw
        /\ after.parameterCount = before.parameterCount + 1
        /\ after.whereParams = Append(before.whereParams, array)
        /\ Len(after.whereClause) >= 1
        /\ after.whereClause[Len(after.whereClause)].kind = "predicate"
        /\ after.whereClause[Len(after.whereClause)].column = column
        /\ after.whereClause[Len(after.whereClause)].rel = "= ANY"
        /\ after.whereClause[Len(after.whereClause)].ph = before.parameterCount + 1
        /\ \E T \in {"int", "text", "boolean", "timestamptz", "jsonb"} :
               after.whereClause[Len(after.whereClause)].cast = T \o "[]"
        /\ SubSeq(after.whereClause, 1, Len(after.whereClause) - 1) \in
               {before.whereClause, Append(before.whereClause, Connective(operator))}

\* C17: in flat and alias-aware mode an array-valued key of any length
\* compiles to exactly one `= ANY($n::T[])` predicate, advances the counter by
\* one and appends exactly one argument, the whole array.
C17_ArrayKeyIsOneMembershipTest ==
    /\ call.name = "find" =>
           \A i \in 1..Len(call.whereObject.entries) :
               (/\ isArray(call.whereObject.entries[i][2])
                /\ HasField(call.definition, call.whereObject.entries[i][1])) =>
                   OneMembershipTest(
                       find(call.definition, FirstKeys(call.whereObject, i - 1),
                            call.paramCountStart, call.operator, ""),
                       find(call.definition, FirstKeys(call.whereObject, i),
                            call.paramCountStart, call.operator, ""),
                       getDatabaseName(call.definition, call.whereObject.entries[i][1], TRUE),
                       call.whereObject.entries[i][2], call.operator)
    /\ call.name = "findWithNesting" =>
           \A i \in 1..Len(call.whereObject.entries) :
               (/\ isArray(call.whereObject.entries[i][2])
                /\ HasField(Lookup(call.definitions, "root"), call.whereObject.entries[i][1])) =>
                   OneMembershipTest(
                       findWithNesting(call.definitions, FirstKeys(call.whereObject, i - 1),
                                       call.paramCountStart, call.operator),
                       findWithNesting(call.definitions, FirstKeys(call.whereObject, i),
                                       call.paramCountStart, call.operator),
                       getDatabaseName(Lookup(call.definitions, "root"),
                                       call.whereObject.entries[i][1], TRUE),
                       call.whereObject.entries[i][2], call.operator)

\* the column findOne names for a key of a filter compiled without alias
RootColumn(definition, key) == getDatabaseName(definition, key, TRUE)

\* every Comparison on an untyped field of the definition is cast to the type
\* inferred from its inner value, as the equality filter on that value is
ComparisonCastFromInnerValue(definition, whereObject, result) ==
    ~result.threw =>
        \A i \in 1..Len(whereObject.entries) :
            LET key == whereObject.entries[i][1]
                value == whereObject.entries[i][2]
                equality == findOne(definition, key, value.value, 0, "")
            IN (/\ isComparison(value)
                /\ ~LooseNull(value.value)
                /\ HasField(definition, key)
                /\ definition.fields[key].type = "") =>
                   /\ ~equality.threw
                   /\ \E j \in 1..Len(result.whereClause) :
                          /\ result.whereClause[j].kind = "predicate"
                          /\ result.whereClause[j].column = RootColumn(definition, key)
                          /\ result.whereClause[j].rel = ComparisonSymbol(value.op)
                          /\ result.whereClause[j].cast = inferDatabaseType(value.value)
                          /\ result.whereClause[j].cast = equality.whereClause[1].cast

\* C18: for a Comparison on a field with no declared type the cast suffix of
\* the predicate is the type inferred from the comparison's inner value
\* (number: int, string: text, boolean: boolean, date: timestamptz), the type
\* an equality filter on that value receives.
C18_ComparisonCastIsInnerValueType ==
    /\ call.name = "find" =>
           ComparisonCastFromInnerValue(call.definition, call.whereObject, call.result)
    /\ call.name = "findWithNesting" =>
           ComparisonCastFromInnerValue(Lookup(call.definitions, "root"), call.whereObject, call.result)

\* the filter is one key holding a Comparison whose value is null
IsNullComparisonFilter(whereObject) ==
    /\ Len(whereObject.entries) = 1
    /\ isComparison(whereObject.entries[1][2])
    /\ whereObject.entries[1][2].value = Null

\* C19: a Comparison whose value is null consumes no placeholder: whatever the
\* operator and the incoming counter, the compiled result has the counter
\* unchanged, no argument and no `$n` placeholder in its fragment.
C19_NullComparisonHasNoPlaceholder ==
    (call.name \in {"find", "findWithNesting"} /\ IsNullComparisonFilter(call.whereObject)) =>
        /\ ~call.result.threw
        /\ call.result.parameterCount = call.paramCountStart
        /\ call.result.whereParams = << >>
        /\ Placeholders(call.result.whereClause) = << >>

\* C20: in the where clause one call of find or findWithNesting with operator
\* op produces, every connective between predicates is op, a nested alias
\* sub-filter of two or more keys included: AND and OR are never combined at
\* the same level.
C20_OneConnectivePerCall ==
    (call.name \in {"find", "findWithNesting"} /\ ~call.result.threw) =>
        \A j \in 1..Len(call.result.whereClause) :
            call.result.whereClause[j].kind = "connective" =>
                call.result.whereClause[j].operator = call.operator

\* the LIMIT and OFFSET pieces of the statement the Select sent last
EmittedLimitOffset ==
    IF sent = << >> THEN << >>
    ELSE SelectSeq(sent[Len(sent)].text, LAMBDA piece : piece.kind \in {"limit", "offset"})

\* C21: after every chained call on a Select and after execute,
\* query.parameterCount is the number of `$n` placeholders in the builder's
\* current where clause, its join clauses and the LIMIT/OFFSET clauses it
\* emitted.
C21_CounterIsNumberOfPlaceholders ==
    builder.class = "Select" =>
        builder.query.parameterCount =
            Len(Placeholders(builder.query.whereClause))
            + Len(Placeholders(Flatten(builder.query.joinClauses)))
            + Len(EmittedLimitOffset)

\* the aliases of the registry
Aliases(defs) == {defs[i][1] : i \in 1..Len(defs)}

\* C22: after any sequence of join, leftJoin and where calls on a Select,
\* with any alias strings, the registry's `root` entry is the definition the
\* Select was constructed with, and every alias registered by an earlier
\* join is still registered.
C22_RootStaysTheBaseTable ==
    [][ (builder.class = "Select" /\ builder'.class = "Select") =>
          /\ Lookup(definitions', "root") = builder'.definition
          /\ Aliases(definitions) \subseteq Aliases(definitions')
      ]_vars

\* the projection of the requested fields in the definition's declaration order
DeclaredProjection(definition, fields) ==
    LET kept == SelectSeq(definition.fieldNames,
                          LAMBDA f : \E i \in 1..Len(fields.elems) : fields.elems[i] = Str(f))
    IN [i \in 1..Len(kept) |->
           definition.tableName \o ".\"" \o getDatabaseName(definition, kept[i], FALSE)
               \o "\" AS \"" \o kept[i] \o "\""]

\* C23: for every subset of fields requested from Entity.select, in any
\* order, the root projection lists exactly the requested fields, each once,
\* in the definition's declaration order; builders made with the same
\* definition and subset have the same projection.
C23_ProjectionIsRequestedFieldsInDeclarationOrder ==
    (call.name = "select" /\ "fields" \in DOMAIN call /\ call.fields # Undefined) =>
        /\ call.selectFields = DeclaredProjection(countryDefinition, call.fields)
        /\ sent[1].text[1] = SelectPiece(DeclaredProjection(countryDefinition, call.fields))

\* `"<alias>".<column of f> as "<o>"`
JoinProjection(joinedTableDefinition, alias, f, o) ==
    "\"" \o alias \o "\".\"" \o getDatabaseName(joinedTableDefinition, f, FALSE) \o "\" as \"" \o o \o "\""

\* C24: the join resolver returns exactly one projected expression per entry
\* of `fields`: `"<alias>".<column of f> as "o"` for every output name o
\* mapped to a joined field f, two output names of one joined field included.
C24_OneProjectionPerOutputName ==
    (call.name = "join" /\ ~call.result.threw) =>
        /\ Len(call.result.joinFields) = Len(call.fields.entries)
        /\ \A i \in 1..Len(call.fields.entries) :
               \E j \in 1..Len(call.result.joinFields) :
                   call.result.joinFields[j] =
                       JoinProjection(call.joinedTableDefinition, call.alias,
                                      call.fields.entries[i][2].v, call.fields.entries[i][1])

\* `"<column>" AS "<logicalName>"` for every field, in declaration order
DeclaredReturning(definition) ==
    [i \in 1..Len(definition.fieldNames) |->
        "\"" \o getDatabaseName(definition, definition.fieldNames[i], FALSE)
            \o "\" AS \"" \o definition.fieldNames[i] \o "\""]

\* the builder classes that write a RETURNING list
IsMutatingBuilder(b) == b.class \in {"Insert", "Update", "Delete"}

\* C25: for Insert with non-empty input, Update and Delete the RETURNING list
\* of the executed statement is every field of the definition, in declaration
\* order, as `"<column>" AS "<logicalName>"`, and no where() or conflict call
\* changes it.
C25_ReturningIsEveryDeclaredField ==
    [][ /\ (IsMutatingBuilder(builder) /\ sent' # sent) =>
               sent'[Len(sent')].text[Len(sent'[Len(sent')].text)]
                   = ReturningPiece(DeclaredReturning(builder.definition))
        /\ (IsMutatingBuilder(builder) /\ builder'.class = builder.class) =>
               builder'.query.returnFields = builder.query.returnFields
      ]_vars

\* an Update or Delete filtered by where(), or an Insert given a conflict
\* clause, was executed
C25_Witness ==
    /\ IsMutatingBuilder(builder)
    /\ call.name = "execute"
    /\ sent # << >>
    /\ \E i \in 1..Len(sent[1].text) : sent[1].text[i].kind \in {"where", "conflict"}
    /\ sent[1].text[Len(sent[1].text)] = ReturningPiece(DeclaredReturning(builder.definition))

\* C26: an Insert built from an empty array resolves to zero rows on execute
\* and never calls the executor, whichever conflict methods were called on it
\* before.
C26_EmptyInsertNeverExecutes ==
    (builder.class = "Insert" /\ history.input = Arr(<< >>)) =>
        /\ sent = << >>
        /\ call.name = "execute" =>
               /\ call.skipped
               /\ call.result = [rows |-> << >>, rowCount |-> 0]

\* an Insert built from an empty array was executed after a conflict call
C26_Witness ==
    /\ builder.class = "Insert"
    /\ history.input = Arr(<< >>)
    /\ builder.query.conflictClause # ""
    /\ call.name = "execute"
    /\ history.executes >= 1
    /\ sent = << >>

\* the fields present on the first row, in declaration order
FirstRowFields(definition, newEntities) ==
    SelectSeq(definition.fieldNames, LAMBDA f : Get(newEntities.elems[1], f) # Undefined)

\* row i's value for the field, null when the row lacks it
RowValue(row, field) ==
    IF Get(row, field) = Undefined THEN Null ELSE Get(row, field)

\* C27: a bulk insert of R >= 1 rows with C fields present on the first row
\* sends exactly the placeholders $1..$C in declaration order and the same C
\* columns in the same order, and argument j is an array of length R whose
\* i-th element is row i's value for column j, or null when row i lacks it.
C27_BulkBindsOneArrayPerColumn ==
    (call.name = "createBulk" /\ Len(call.newEntities.elems) >= 1
     /\ FirstRowFields(countryDefinition, call.newEntities) # << >>) =>
        LET rows == call.newEntities.elems
            present == FirstRowFields(countryDefinition, call.newEntities)
            C == Len(present)
        IN /\ Len(sent) = 1
           /\ Placeholders(sent[1].text) = [j \in 1..C |-> j]
           /\ sent[1].text[1] =
                  InsertPiece(countryDefinition.tableName,
                              [j \in 1..C |->
                                  "\"" \o getDatabaseName(countryDefinition, present[j], FALSE) \o "\""])
           /\ Len(sent[1].args) = C
           /\ \A j \in 1..C :
                  /\ sent[1].args[j].t = "array"
                  /\ Len(sent[1].args[j].elems) = Len(rows)
                  /\ \A i \in 1..Len(rows) :
                         sent[1].args[j].elems[i] = RowValue(rows[i], present[j])

\* the names of the conflict methods of Insert
ConflictMethods ==
    {"onKeyConflictDoNothing", "onKeyConflictDoUpdate",
     "onConstraintConflictDoNothing", "onConstraintConflictDoUpdate"}

\* C28: the conflict methods of Insert change only the conflict clause
\* (placeholders, arguments, inserted columns and RETURNING list stay as they
\* were), the last conflict call made decides the clause, and the clause is
\* emitted between the values SELECT and RETURNING.
C28_ConflictCallsSetOnlyTheClause ==
    [][ /\ (builder.class = "Insert" /\ call'.name \in ConflictMethods) =>
               /\ builder'.query =
                      [builder.query EXCEPT !.conflictClause =
                          InsertConflictClause(builder.definition, call'.name, call'.target, call'.set)]
               /\ builder'.definition = builder.definition
        /\ (builder.class = "Insert" /\ sent' # sent) =>
               LET text == sent'[Len(sent')].text
                   n == Len(builder.query.insertPlaceholders)
               IN /\ sent'[Len(sent')].args = builder.query.insertParams
                  /\ text[1] = InsertPiece(builder.definition.tableName, builder.query.insertFields)
                  /\ SubSeq(text, 3, 2 + n) = builder.query.insertPlaceholders
                  /\ text[Len(text)] = ReturningPiece(builder.query.returnFields)
                  /\ IF builder.query.conflictClause = ""
                     THEN Len(text) = n + 3
                     ELSE /\ Len(text) = n + 4
                          /\ text[n + 3] = ConflictPiece(builder.query.conflictClause)
      ]_vars

\* an Insert was executed after two conflict calls, the clause of the second
\* one in its text
C28_Witness ==
    /\ builder.class = "Insert"
    /\ call.name = "execute"
    /\ history.calls = 2
    /\ sent # << >>
    /\ \E i \in 1..Len(sent[1].text) :
           /\ sent[1].text[i] = ConflictPiece(builder.query.conflictClause)
           /\ sent[1].text[i - 1].kind = "placeholder"
           /\ sent[1].text[i + 1].kind = "returning"

\* C29: for two builders created from the same Entity, a call on one (its
\* construction, any chained configuration call, its execute) leaves the
\* statement text and argument list the other serialises unchanged, and
\* leaves the Entity's definition unchanged.
C29_BuildersAreIsolated ==
    [][ /\ definitions'.entity = definitions.entity
        /\ \A j \in Builders :
              call'.who # j => Serialise(builder'[j], definitions') = Serialise(builder[j], definitions)
      ]_vars

\* a Select has been configured, and the other builder, a Select too, has
\* just joined under the alias 'root'
C29_Witness ==
    /\ call.name = "join" /\ call.who = 2
    /\ builder[1].class = "Select" /\ builder[2].class = "Select"
    /\ history[1].calls = MaxPairCalls
    /\ Lookup(definitions.registries[builder[2].registry], "root") # definitions.entity
    /\ Lookup(definitions.registries[builder[1].registry], "root") = definitions.entity
    /\ Serialise(builder[1], definitions) # Serialise(builder[2], definitions)

\* the error mapping's own keys, and the value it holds under one of them
MappingKeys(errorMapping) == {errorMapping.entries[i][1] : i \in 1..Len(errorMapping.entries)}
MappingValue(errorMapping, key) ==
    errorMapping.entries[CHOOSE i \in 1..Len(errorMapping.entries) : errorMapping.entries[i][1] = key][2]

\* parseErrors settled to Err(mapping[key]), or rethrew the error when the
\* mapping has no entry for the key
SettledByKey(key) ==
    IF key \in MappingKeys(call.errorMapping)
    THEN call.settled = [threw |-> FALSE, value |-> Err(MappingValue(call.errorMapping, key))]
    ELSE call.settled = [threw |-> TRUE, error |-> builder.value]

CodeMissing(error) == error.code = Undefined \/ error.code.v = ""

\* C30: parseErrors passes a successful result through as Ok(rows); a
\* database error becomes Err(mapping[key]) with key 'range' when the routine
\* is range_serialize, '<table>_<column>_null' for code 23502, 'offset' for
\* code 2201X and the constraint name for any other 23xxx code; the original
\* error is rethrown when the code is missing or of any other class, or when
\* the mapping has no entry for the key.
C30_ParseErrorsMapsByKey ==
    call.name = "parseErrors" =>
        /\ builder.state = "fulfilled" => call.settled = [threw |-> FALSE, value |-> Ok(builder.value)]
        /\ builder.state = "rejected" =>
              LET error == builder.value
              IN CASE error.routine = Str("range_serialize") -> SettledByKey("range")
                   [] error.routine # Str("range_serialize") /\ CodeMissing(error) ->
                          call.settled = [threw |-> TRUE, error |-> error]
                   [] OTHER ->
                          CASE error.code.v = "23502" ->
                                   SettledByKey(TemplateString(error.table) \o "_"
                                                \o TemplateString(error.column) \o "_null")
                            [] error.code.v = "2201X" -> SettledByKey("offset")
                            [] error.code.class = "23" /\ error.code.v # "23502" ->
                                   SettledByKey(TemplateString(error.constraint))
                            [] OTHER -> call.settled = [threw |-> TRUE, error |-> error]

\* a unique violation was mapped to the message held under its constraint name
C30_Witness ==
    /\ call.name = "parseErrors" /\ builder.state = "rejected"
    /\ builder.value.code = SqlState("23", "505")
    /\ builder.value.routine # Str("range_serialize")
    /\ builder.value.constraint = Str("country_name_key")
    /\ call.settled = [threw |-> FALSE, value |-> Err(Str("Name is taken"))]

----------------------------------------------------------------------------
(* Properties of the Executor and the Pool *)

\* the queries task t handed to the client, in order
QueriesOf(t) == SelectSeq(sent, LAMBDA q : q.by = t)

TextsOf(t) == [i \in 1..Len(QueriesOf(t)) |-> QueriesOf(t)[i].text]

Issued(t, text) == \E i \in 1..Len(sent) : sent[i] = Query(text, t)

IsTransaction(t) == call[t].pc # "idle" /\ call[t].kind \in {"transaction", "runInTransaction"}

TransactionOver(t) == IsTransaction(t) /\ call[t].pc \in {"finally", "done"}

\* C31: Executor.transaction(fn) on an Executor nobody releases: BEGIN is
\* issued before fn runs; when fn resolves COMMIT is issued after it, and when
\* COMMIT succeeds no ROLLBACK is issued and fn's result is returned; when
\* BEGIN, fn or COMMIT fails, ROLLBACK is issued afterwards, last of all, and
\* the caller receives the error that caused the failure.
C31_TransactionCommitsOrRollsBack ==
    history.releaseCalls = 0 =>
        \A t \in Tasks :
            IsTransaction(t) =>
                /\ call[t].fnRan => TextsOf(t)[1] = "BEGIN"
                /\ TransactionOver(t) =>
                      LET q == TextsOf(t)
                      IN IF call[t].settled.ok
                         THEN /\ q[Len(q)] = "COMMIT"
                              /\ \A i \in 1..Len(q) : q[i] # "ROLLBACK"
                              /\ call[t].fnOutcome = Resolved(call[t].settled.value)
                         ELSE /\ q[Len(q)] = "ROLLBACK"
                              /\ call[t].settled.error = call[t].err
                              /\ call[t].err \in {QueryError("BEGIN"), QueryError("COMMIT"),
                                                  QueryError("STATEMENT"), FnError}

ExecutorMethods == {m.name : m \in DirectMethods}

\* C32: once release() was called, every execute, executeString, begin,
\* commit and rollback call throws and nothing more reaches the client,
\* whether the call is direct or made by a transaction in progress; the
\* Executor stays closed and client.release is called at most once however
\* many times release() is called.
C32_NothingAfterRelease ==
    [][ /\ db'.releases <= 1
        /\ builder.closed =>
              /\ sent' = sent
              /\ builder'.closed
              /\ db'.releases = db.releases
              /\ (history'.last # history.last /\ history'.last.name \in ExecutorMethods)
                     => history'.last.threw
      ]_vars

\* release() was called twice and a direct commit() made afterwards threw
C32_Witness ==
    /\ builder.closed /\ history.releaseCalls = 2 /\ db.releases = 1
    /\ history.last.name = "commit" /\ history.last.threw
    /\ \E t \in Tasks : call[t].pc = "done" /\ call[t].settled = Rejected(ClosedError)
                        /\ Issued(t, "BEGIN")

\* C38: when two transaction(fn) calls run concurrently on the same Executor
\* their spans do not overlap: between the BEGIN of one call and its COMMIT
\* or ROLLBACK no query of the other call, BEGIN included, reaches the client.
C38_TransactionSpansDoNotOverlap ==
    \A i, j \in 1..Len(sent) :
        (i < j /\ sent[i].text = "BEGIN" /\ sent[i].by \in Tasks
               /\ sent[j].by \in Tasks \ {sent[i].by}) =>
            \E k \in (i + 1)..(j - 1) :
                sent[k].by = sent[i].by /\ sent[k].text \in {"COMMIT", "ROLLBACK"}

IsPoolCall == call[PoolTask].pc # "idle" /\ call[PoolTask].kind \in {"run", "runInTransaction"}

\* C33: Pool.run(fn) and Pool.runInTransaction(fn), when nobody else releases
\* the Executor, release it exactly once after fn has finished, whether fn
\* resolves, rejects or throws, and in runInTransaction only after COMMIT or
\* ROLLBACK has been issued.
C33_PoolReleasesExactlyOnce ==
    (IsPoolCall /\ history.releaseCalls = 0) =>
        /\ db.releases <= 1
        /\ call[PoolTask].pc = "done" => db.releases = 1 /\ builder.closed
        /\ db.releases = 1 =>
              /\ call[PoolTask].pc = "done"
              /\ call[PoolTask].kind = "runInTransaction" =>
                     Issued(PoolTask, "COMMIT") \/ Issued(PoolTask, "ROLLBACK")

DeclaredType(definition, field) == definition.fields[field].type

\* C34: getDatabaseType returns the field's declared type for every sample
\* value when one is declared; otherwise int for a number, text for a string,
\* boolean for a boolean, timestamptz for a date and jsonb for any other
\* object or array, and it fails when the value is undefined.
C34_DeclaredTypeWinsElseInferred ==
    call.name = "getDatabaseType" =>
        IF DeclaredType(call.definition, call.field) # ""
        THEN ~call.threw /\ call.type = DeclaredType(call.definition, call.field)
        ELSE /\ call.value.t = "number" => ~call.threw /\ call.type = "int"
             /\ call.value.t = "string" => ~call.threw /\ call.type = "text"
             /\ call.value.t = "boolean" => ~call.threw /\ call.type = "boolean"
             /\ call.value.t = "date" => ~call.threw /\ call.type = "timestamptz"
             /\ call.value.t \in {"object", "array"} => ~call.threw /\ call.type = "jsonb"
             /\ call.value = Undefined => call.threw

\* a date given to a field with a declared type
C34_Witness ==
    /\ call.name = "getDatabaseType"
    /\ call.definition = userDefinition /\ call.field = "emailState"
    /\ call.value = DateV("2019-01-01") /\ call.type = "user_email_state"

\* the place of a clause in the statement; 0 for the pieces inside a clause
ClauseRank(piece) ==
    CASE piece.kind = "select" -> 1
      [] piece.kind = "from" -> 2
      [] piece.kind \in {"join", "endjoin"} -> 3
      [] piece.kind = "where" -> 4
      [] piece.kind = "groupBy" -> 5
      [] piece.kind = "orderBy" -> 6
      [] piece.kind = "limit" -> 7
      [] piece.kind = "offset" -> 8
      [] OTHER -> 0

InClauseOrder(text) ==
    /\ \A i, j \in 1..Len(text) :
          (i < j /\ ClauseRank(text[i]) # 0 /\ ClauseRank(text[j]) # 0)
              => ClauseRank(text[i]) <= ClauseRank(text[j])
    /\ \A k \in 1..Len(text) :
          ClauseRank(text[k]) = 0 =>
              \E i \in 1..(k - 1) :
                  /\ text[i].kind \in {"join", "where"}
                  /\ \A j \in (i + 1)..k : ClauseRank(text[j]) = 0

JoinedAliases(text) ==
    LET joins == SelectSeq(text, LAMBDA piece : piece.kind = "join")
    IN [i \in 1..Len(joins) |-> joins[i].alias]

HasClause(text, kind) == \E i \in 1..Len(text) : text[i].kind = kind

\* C35: whatever order the chained calls were made in, the Select statement
\* has its clauses in the order SELECT fields, FROM the table of the entity
\* the Select was made for, the join clauses in registration order, WHERE,
\* GROUP BY, ORDER BY, LIMIT, OFFSET, and execute hands text and arguments to
\* the executor in one executeString call.
C35_ClausesInFixedOrder ==
    (builder.class = "Select" /\ "called" \in DOMAIN history) =>
        /\ Len(sent) = history.executes
        /\ \A n \in 1..Len(sent) :
              LET text == sent[n].text
              IN /\ text[1] = SelectPiece(builder.query.selectFields)
                 /\ text[2] = FromPiece(builder.definition.tableName)
                 /\ InClauseOrder(text)
                 /\ JoinedAliases(text) = history.joined
                 /\ HasClause(text, "groupBy") <=> "groupBy" \in history.called
                 /\ HasClause(text, "orderBy") <=> "orderBy" \in history.called

\* C36: execute called twice on the same Select with no configuration call in
\* between, limit or offset being set: the second call hands the executor
\* the same statement text and the same argument list as the first, and
\* leaves query.parameterCount where the first call left it.
C36_ExecuteTwiceSendsTheSame ==
    [][ ( /\ builder.class = "Select" /\ call.name = "execute" /\ call'.name = "execute"
          /\ Len(sent') = Len(sent) + 1
          /\ builder.query.limit # Undefined \/ builder.query.offset # Undefined ) =>
            /\ sent'[Len(sent')] = sent[Len(sent)]
            /\ builder'.query.parameterCount = builder.query.parameterCount
      ]_vars

\* C37: Insert.execute skips the executor only for an empty array input: for
\* every single entity, also one with no field set, and for every non-empty
\* array a statement is sent to the executor.
C37_OnlyEmptyArraySkipsExecutor ==
    (builder.class = "Insert" /\ call.name = "execute") =>
        /\ call.skipped <=> history.input = Arr(<< >>)
        /\ ~call.skipped => sent # << >>

====
